---- MODULE Spec2Model ----
(***************************************************************************)
(* Arena brawler: the round/match state machine (RoundManager), the        *)
(* simulation tick that drives it (Game.fixedUpdate), the start signals    *)
(* (keyboard, gamepad, touch) and the forced round end.                    *)
(*                                                                         *)
(* Time is in milliseconds.  Fractions of the source are kept as integers: *)
(* arenaScale and shrinkSpeedMultiplier in percent, damageMultiplier in    *)
(* thousandths.                                                            *)
(***************************************************************************)
EXTENDS Integers, Sequences, FiniteSets, TLC

\* ---------------------------------------------------------------- bounds
\* Simulated time one tick advances.  The program steps by 1000/60 ms; the
\* model steps by a coarser quantum so that a whole match is finite-state.
TickMs == 1000
\* Rounds after which no further round is started.
MaxRounds == 3
\* Largest player count the player-count buttons are pressed with.
MaxPlayers == 3
\* Distances from the arena centre an actor is recorded at are 0..MaxDist.
MaxDist == 2
\* The clock of the timers, in milliseconds, and the slow-motion requests made.
MaxClockMs == 300
ClockStepMs == 10
MaxRequests == 3
\* The rounds of a match that is followed to its end.
MaxWinRounds == 5
\* Simulated time one tick of a single actor advances (the dash, cooldown and
\* idle timers of Player count in these steps).
ActorTickMs == 75
\* Simulated time the frames of the driver add up to.
MaxElapsedMs == 9000
\* Simulated time one update of the round manager advances where the round
\* manager is followed by itself.
RoundStepMs == 500

\* ------------------------------------------------------ program constants
WINS_NEEDED == 3
COUNTDOWN_DURATION == 3
ROUND_END_DELAY == 2000
MATCH_END_DELAY == 3000
BASE_DAMAGE_MULTIPLIER == 1000
MAX_DAMAGE_MULTIPLIER == 2500
DAMAGE_RAMP_START == 8000
DAMAGE_RAMP_DURATION == 10000
INSTABILITY_START == 12000
FINAL_COUNTDOWN_START == 20000
FINAL_COUNTDOWN_DURATION == 5000
COUNT_STEP == 1000
UpdatesPerSecond == 60
MinPlayerCount == 2
DefaultPlayerCount == 2
SuddenDeathStartTime == 12000
ShrinkStartTime == 8000
DefaultScale == 100

CANVAS_WIDTH == 1000
CANVAS_HEIGHT == 700
ARENA_PADDING == 50
PLAYER_RADIUS == 25
MAX_SPEED == 6
ShrinkDuration == 12000
MinSizePercent == 35
SuddenDeathShrinkSpeed == 500
CentrifugeRadiusPercent == 45
CentrifugeMinRadius == 80
CentrifugeShrinkPerSecond == 15
CentrifugeMaxForce == 3500
CentrifugeMaxSpeed == 4000
CentrifugeSpeedPerMs == 5
CentrifugeDeadZone == 10
SuddenDeathDeadZone == 1

\* CONFIG.DASH, CONFIG.PLAYER, CONFIG.COLLISION and the forces: times in
\* milliseconds, speeds, accelerations and forces in hundredths of a pixel
\* per tick, factors in thousandths.
DASH_DURATION == 150
DASH_COOLDOWN == 1500
DASH_SPEED_MULTIPLIER == 3
ACCELERATION == 80
FRICTION == 920
DashFriction == 980
MinFriction == 850
MaxFriction == 995
MaxIdleTime == 5000
IdleSpeed == 50
IdlePushForce == 15
BOUNCE_FACTOR == 800
MASS == 1
PUSH_FORCE == 1500
DASH_PUSH_MULTIPLIER == 2
SuddenDeathForce == 15
INSTABILITY_MAX_FORCE == 30

FIXED_TIMESTEP == TickMs

\* Lengths and coordinates are in 64ths of a pixel, which keeps the extents of
\* the shrinking arena exact at every tick.
SubPixels(px) == px * 64
Abs(n) == IF n < 0 THEN -n ELSE n
Min(a, b) == IF a < b THEN a ELSE b
Max(a, b) == IF a > b THEN a ELSE b

\* The modifier table of CONFIG.MODIFIERS; "NONE" is the Standard round.
ModifierKeys == {"SLIPPERY", "HEAVY_HITS", "TINY_ARENA", "FAST_SHRINK", "TURBO", "BOUNCY"}
Modifiers == ModifierKeys \cup {"NONE"}
ModifierArenaScale(m) == IF m = "TINY_ARENA" THEN 70 ELSE DefaultScale
ModifierShrinkSpeed(m) == IF m = "FAST_SHRINK" THEN 250 ELSE DefaultScale
\* The fields friction, speedMultiplier, pushMultiplier and bounceMultiplier
\* of a modifier, in percent; 0 stands for a field the modifier does not have.
ModifierFields(m) ==
    [friction         |-> IF m = "SLIPPERY" THEN 98 ELSE 0,
     speedMultiplier  |-> IF m = "TURBO" THEN 140 ELSE 0,
     pushMultiplier   |-> IF m = "HEAVY_HITS" THEN 200 ELSE 0,
     bounceMultiplier |-> IF m = "BOUNCY" THEN 150 ELSE 0]

NoPlayer == 0
NoModifier == "null"
AtSpawn == "spawn"
Elsewhere == "elsewhere"
Dists == 0..MaxDist

VARIABLES
    rm,        \* the RoundManager's fields
    players,   \* Game.players: the array of actors
    arena,     \* the Arena's round-scoped fields
    game,      \* Game.roundResetDone, activeModifier, gamepadStartPreviousState,
               \* and the Player object only the round manager still refers to
    touch,     \* TouchControls.startPressed
    emitted    \* notifications fired by the latest call into the round manager

vars == <<rm, players, arena, game, touch, emitted>>

\* The whole program state as one value, threaded through the handlers.
World == [rm |-> rm, players |-> players, arena |-> arena, game |-> game, ev |-> <<>>]

Ev(type, player, num, text) == [type |-> type, player |-> player, num |-> num, text |-> text]
Emit(w, e) == [w EXCEPT !.ev = Append(@, e)]

\* ---------------------------------------------------------------- Player
NewPlayer == [isAlive |-> TRUE, wins |-> 0, position |-> AtSpawn]
reset(p) == [p EXCEPT !.position = AtSpawn, !.isAlive = TRUE]
eliminate(p) == [p EXCEPT !.isAlive = FALSE]
\* A win that counts double.
addWin_twice(p) == [p EXCEPT !.wins = @ + 2]
addWin(p) == [p EXCEPT !.wins = @ + 1]
\* The match point counted one round late.
hasWonMatch_late(p) == p.wins > WINS_NEEDED
hasWonMatch(p) == p.wins >= WINS_NEEDED

Indices(ps) == 1..Len(ps)
AliveIdx(ps) == {i \in Indices(ps) : ps[i].isAlive}
\* Array.filter keeps array order; the first element of the filtered array.
FirstOf(S) == CHOOSE i \in S : \A j \in S : i <= j

\* ----------------------------------------------------------------- Arena
\* The original bounds are the canvas less the padding; the centre never moves.
originalWidth == (CANVAS_WIDTH - ARENA_PADDING) - ARENA_PADDING
originalHeight == (CANVAS_HEIGHT - ARENA_PADDING) - ARENA_PADDING
centerX == ARENA_PADDING + originalWidth \div 2
centerY == ARENA_PADDING + originalHeight \div 2

\* width and height in subpixels; centrifugeForce in 1/10000; centrifugeSpeed
\* in millionths of a radian per millisecond; the rotation of the centrifuge
\* is drawn only and is left out.
NewArena == [roundTime |-> 0, isShrinking |-> FALSE, suddenDeathActive |-> FALSE,
             centrifugeMode |-> FALSE, arenaScale |-> DefaultScale,
             shrinkSpeedMultiplier |-> DefaultScale,
             width |-> SubPixels(originalWidth), height |-> SubPixels(originalHeight),
             centrifugeRadius |-> 0, centrifugeSpeed |-> 0, centrifugeForce |-> 0]

\* The reset that keeps the scale and the shrink speed of the round before.
arenaReset_keepModifier(a) ==
    [NewArena EXCEPT !.centrifugeRadius = a.centrifugeRadius,
                     !.arenaScale = a.arenaScale,
                     !.shrinkSpeedMultiplier = a.shrinkSpeedMultiplier]

\* Arena.reset leaves centrifugeRadius as it is.
arenaReset(a) == [NewArena EXCEPT !.centrifugeRadius = a.centrifugeRadius]

\* Arena.bounds: every assignment of the source keeps it centred, with the
\* stored width and height.
bounds(a) ==
    [left   |-> SubPixels(centerX) - a.width \div 2,
     right  |-> SubPixels(centerX) + a.width \div 2,
     top    |-> SubPixels(centerY) - a.height \div 2,
     bottom |-> SubPixels(centerY) + a.height \div 2]

\* origExtent * arenaScale
ScaledExtent(extent, arenaScale) == (SubPixels(extent) * arenaScale) \div 100

applyScale(a) ==
    [a EXCEPT !.width = ScaledExtent(originalWidth, a.arenaScale),
              !.height = ScaledExtent(originalHeight, a.arenaScale)]
setScale(a, scale) == applyScale([a EXCEPT !.arenaScale = scale])
setShrinkSpeed(a, mult) == [a EXCEPT !.shrinkSpeedMultiplier = mult]

\* Arena.getShrinkProgress, as the shrink time counted: progress * shrinkDuration
getShrinkProgress(a) ==
    IF a.roundTime < ShrinkStartTime THEN 0
    ELSE Min(ShrinkDuration, a.roundTime - ShrinkStartTime)

\* The sudden death following the reported count instead of latching.
setAliveCount_unlatched(a, count) ==
    [a EXCEPT !.suddenDeathActive = (count <= 2 /\ a.roundTime >= SuddenDeathStartTime)]

setAliveCount(a, count) ==
    IF count <= 2 /\ a.roundTime >= SuddenDeathStartTime /\ ~a.suddenDeathActive
    THEN [a EXCEPT !.suddenDeathActive = TRUE]
    ELSE a

activateCentrifuge(a) ==
    [a EXCEPT !.centrifugeMode = TRUE,
              !.centrifugeRadius = (Min(a.width, a.height) * CentrifugeRadiusPercent) \div 100,
              !.centrifugeSpeed = 0,
              !.centrifugeForce = 0]

\* The extent Arena.update gives an original extent at progress
\* progress / (ShrinkDuration * 100):
\* extent * arenaScale * (1 - (1 - minSizePercent) * progress).
ShrunkExtent(extent, arenaScale, progress) ==
    LET scaled == ScaledExtent(extent, arenaScale)
    IN  scaled - ((((scaled * (100 - MinSizePercent)) \div 100) * (progress \div 1000))
                    \div (ShrinkDuration \div 10))

shrinkMultiplier(a) ==
    IF a.suddenDeathActive THEN SuddenDeathShrinkSpeed ELSE a.shrinkSpeedMultiplier

\* The accelerated progress without its clamp to 1.
AcceleratedProgress_unclamped(a) == getShrinkProgress(a) * shrinkMultiplier(a)

\* Math.min(1, baseProgress * shrinkMultiplier), in 1 / (ShrinkDuration * 100)
AcceleratedProgress(a) ==
    Min(ShrinkDuration * 100, getShrinkProgress(a) * shrinkMultiplier(a))

\* The update that takes every tick for a playing one.
arenaUpdate_alwaysPlaying(a, deltaTime, isPlaying) ==
    LET a1 == IF a.centrifugeMode
              THEN [a EXCEPT
                      !.centrifugeSpeed =
                          Min(@ + CentrifugeSpeedPerMs * deltaTime, CentrifugeMaxSpeed),
                      !.centrifugeForce = Min(@ + deltaTime, CentrifugeMaxForce),
                      !.centrifugeRadius =
                          Max(SubPixels(CentrifugeMinRadius),
                              @ - (SubPixels(CentrifugeShrinkPerSecond) * deltaTime) \div 1000)]
              ELSE a
        a2 == [a1 EXCEPT !.roundTime = @ + deltaTime]
        progress == AcceleratedProgress(a2)
    IN  IF a2.roundTime >= ShrinkStartTime
        THEN [a2 EXCEPT !.isShrinking = TRUE,
                        !.width = ShrunkExtent(originalWidth, a2.arenaScale, progress),
                        !.height = ShrunkExtent(originalHeight, a2.arenaScale, progress)]
        ELSE a2

arenaUpdate(a, deltaTime, isPlaying) ==
    LET a1 == IF a.centrifugeMode /\ isPlaying
              THEN [a EXCEPT
                      !.centrifugeSpeed =
                          Min(@ + CentrifugeSpeedPerMs * deltaTime, CentrifugeMaxSpeed),
                      !.centrifugeForce = Min(@ + deltaTime, CentrifugeMaxForce),
                      !.centrifugeRadius =
                          Max(SubPixels(CentrifugeMinRadius),
                              @ - (SubPixels(CentrifugeShrinkPerSecond) * deltaTime) \div 1000)]
              ELSE a
        a2 == [a1 EXCEPT !.roundTime = @ + deltaTime]
        progress == AcceleratedProgress(a2)
    IN  IF ~isPlaying THEN a1
        ELSE IF a2.roundTime >= ShrinkStartTime
        THEN [a2 EXCEPT !.isShrinking = TRUE,
                        !.width = ShrunkExtent(originalWidth, a2.arenaScale, progress),
                        !.height = ShrunkExtent(originalHeight, a2.arenaScale, progress)]
        ELSE a2

\* dist > limit, for dist = sqrt(dx*dx + dy*dy)
FartherThan(dx, dy, limit) == limit < 0 \/ dx * dx + dy * dy > limit * limit

isOutOfCentrifuge(a, x, y, radius) ==
    /\ a.centrifugeMode
    /\ FartherThan(x - SubPixels(centerX), y - SubPixels(centerY), a.centrifugeRadius - radius)

isEliminatedCentrifuge(a, x, y, radius) ==
    /\ a.centrifugeMode
    /\ FartherThan(x - SubPixels(centerX), y - SubPixels(centerY), a.centrifugeRadius + radius)

\* The elimination test made with the comparisons of the out-of-bounds test.
isEliminatedRect_touching(a, x, y, radius) ==
    LET b == bounds(a)
    IN  \/ x - radius < b.left
        \/ x + radius > b.right
        \/ y - radius < b.top
        \/ y + radius > b.bottom

isOutOfBoundsRect(a, x, y, radius) ==
    LET b == bounds(a)
    IN  \/ x - radius < b.left
        \/ x + radius > b.right
        \/ y - radius < b.top
        \/ y + radius > b.bottom

isEliminatedRect(a, x, y, radius) ==
    LET b == bounds(a)
    IN  \/ x + radius < b.left
        \/ x - radius > b.right
        \/ y + radius < b.top
        \/ y - radius > b.bottom

isOutOfBounds(a, x, y, radius) ==
    IF a.centrifugeMode THEN isOutOfCentrifuge(a, x, y, radius)
    ELSE isOutOfBoundsRect(a, x, y, radius)

isEliminated(a, x, y, radius) ==
    IF a.centrifugeMode THEN isEliminatedCentrifuge(a, x, y, radius)
    ELSE isEliminatedRect(a, x, y, radius)

\* Arena.getCentrifugeForce and Arena.getSuddenDeathForce return a vector; the
\* model keeps whether it is the zero vector.
\* Physics.checkArenaBoundary for an actor with a position in the plane
checkArenaBoundary(p, a) ==
    /\ p.isAlive
    /\ isEliminated(a, p.position.x, p.position.y, SubPixels(PLAYER_RADIUS))

hasCentrifugeForce(a, x, y) ==
    /\ a.centrifugeMode
    /\ a.centrifugeForce # 0
    /\ LET dx == x - SubPixels(centerX)
           dy == y - SubPixels(centerY)
       IN  dx * dx + dy * dy >= SubPixels(CentrifugeDeadZone) * SubPixels(CentrifugeDeadZone)

hasSuddenDeathForce(a, x, y) ==
    /\ a.suddenDeathActive
    /\ LET dx == SubPixels(centerX) - x
           dy == SubPixels(centerY) - y
       IN  dx * dx + dy * dy >= SubPixels(SuddenDeathDeadZone) * SubPixels(SuddenDeathDeadZone)

\* The sudden death force applied in centrifuge mode too.
arenaForces_both(a, p) ==
    {f \in {"centrifuge"} :
        p.isAlive /\ a.centrifugeMode /\ hasCentrifugeForce(a, p.position.x, p.position.y)}
    \cup
    {f \in {"suddenDeath"} :
        p.isAlive /\ a.suddenDeathActive /\ hasSuddenDeathForce(a, p.position.x, p.position.y)}

\* The arena forces Game.fixedUpdate adds to the velocity of an actor, as the
\* set of those that are not the zero vector.
arenaForces(a, p) ==
    {f \in {"centrifuge"} :
        p.isAlive /\ a.centrifugeMode /\ hasCentrifugeForce(a, p.position.x, p.position.y)}
    \cup
    {f \in {"suddenDeath"} :
        /\ p.isAlive /\ a.suddenDeathActive /\ ~a.centrifugeMode
        /\ hasSuddenDeathForce(a, p.position.x, p.position.y)}

\* ---------------------------------------------------- Game's callbacks
onRoundStart(w, round, modifier) ==
    LET g == [w.game EXCEPT !.roundResetDone = FALSE, !.activeModifier = modifier]
        a == IF modifier = "TINY_ARENA" THEN setScale(w.arena, ModifierArenaScale(modifier))
             ELSE IF modifier = "FAST_SHRINK" THEN setShrinkSpeed(w.arena, ModifierShrinkSpeed(modifier))
             ELSE w.arena
    IN  Emit([w EXCEPT !.game = g, !.arena = a], Ev("roundStart", NoPlayer, round, modifier))

onRoundEnd(w, winnerIdx, round, reason) ==
    Emit([w EXCEPT !.game.activeModifier = NoModifier], Ev("roundEnd", winnerIdx, round, reason))

onMatchEnd(w, winnerIdx) == Emit(w, Ev("matchEnd", winnerIdx, 0, ""))
onCountdownTick(w, value) == Emit(w, Ev("countdownTick", NoPlayer, value, ""))
onModifierAnnounce(w, modifier) == Emit(w, Ev("modifierAnnounce", NoPlayer, 0, modifier))
onEscalation(w) == Emit(w, Ev("escalation", NoPlayer, 0, "instability"))
onFinalCountdown(w, seconds) == Emit(w, Ev("finalCountdown", NoPlayer, seconds, ""))
\* Game assigns this handler to roundManager.onCentrifugeStart; the round
\* manager has no such callback and never calls it.
onCentrifugeStart(w) ==
    Emit([w EXCEPT !.arena = activateCentrifuge(w.arena)], Ev("centrifugeStart", NoPlayer, 0, ""))

\* ---------------------------------------------------------- RoundManager
NewRoundManager ==
    [state |-> "waiting", currentRound |-> 0, countdownValue |-> 0, countdownTimer |-> 0,
     roundEndTimer |-> 0, winner |-> NoPlayer, roundWinner |-> NoPlayer, roundTime |-> 0,
     currentModifier |-> NoModifier, damageMultiplier |-> BASE_DAMAGE_MULTIPLIER,
     instabilityActive |-> FALSE, finalCountdownActive |-> FALSE, finalCountdownTime |-> 0]

isPlaying(r) == r.state = "playing"
\* The start guard also letting a running countdown through.
isWaiting_orCountdown(r) == r.state = "waiting" \/ r.state = "countdown"
isWaiting(r) == r.state = "waiting"
\* The start guard taking a finished round for a finished match.
isMatchOver_orRoundEnd(r) == r.state = "matchEnd" \/ r.state = "roundEnd"
isMatchOver(r) == r.state = "matchEnd"

\* Math.ceil(ms / 1000)
CeilSeconds(ms) == -((-ms) \div 1000)

\* The modifier drawn for every round, the first of a match included.
startCountdown_anyRound(w, modifier) ==
    LET r == [w.rm EXCEPT
                !.countdownValue = COUNTDOWN_DURATION,
                !.countdownTimer = COUNT_STEP,
                !.state = "countdown",
                !.roundWinner = NoPlayer,
                !.roundTime = 0,
                !.damageMultiplier = BASE_DAMAGE_MULTIPLIER,
                !.instabilityActive = FALSE,
                !.finalCountdownActive = FALSE,
                !.finalCountdownTime = 0,
                !.currentModifier = modifier]
    IN  onCountdownTick([w EXCEPT !.rm = r], COUNTDOWN_DURATION)

\* modifier: the outcome getRandomModifier() has when it is called, which it
\* is only when currentRound >= 1.
\* startCountdown without the reset of the chaos mode.
startCountdown_keepInstability(w, modifier) ==
    LET r == [w.rm EXCEPT
                !.countdownValue = COUNTDOWN_DURATION,
                !.countdownTimer = COUNT_STEP,
                !.state = "countdown",
                !.roundWinner = NoPlayer,
                !.roundTime = 0,
                !.damageMultiplier = BASE_DAMAGE_MULTIPLIER,
                !.finalCountdownActive = FALSE,
                !.finalCountdownTime = 0,
                !.currentModifier = IF w.rm.currentRound >= 1 THEN modifier ELSE "NONE"]
    IN  onCountdownTick([w EXCEPT !.rm = r], COUNTDOWN_DURATION)

startCountdown(w, modifier) ==
    LET r == [w.rm EXCEPT
                !.countdownValue = COUNTDOWN_DURATION,
                !.countdownTimer = COUNT_STEP,
                !.state = "countdown",
                !.roundWinner = NoPlayer,
                !.roundTime = 0,
                !.damageMultiplier = BASE_DAMAGE_MULTIPLIER,
                !.instabilityActive = FALSE,
                !.finalCountdownActive = FALSE,
                !.finalCountdownTime = 0,
                !.currentModifier = IF w.rm.currentRound >= 1 THEN modifier ELSE "NONE"]
    IN  onCountdownTick([w EXCEPT !.rm = r], COUNTDOWN_DURATION)

\* startMatch without the reset of the round counter.
startMatch_keepRound(w, modifier) ==
    startCountdown([w EXCEPT !.rm.state = "countdown", !.rm.winner = NoPlayer,
                             !.game.detached = <<>>], modifier)

\* startMatch without the reset of the winner.
startMatch_keepWinner(w, modifier) ==
    startCountdown([w EXCEPT !.rm.currentRound = 0, !.rm.state = "countdown"], modifier)

\* winner = null drops the last reference to a Player object that is no
\* longer in Game.players.
startMatch(w, modifier) ==
    startCountdown([w EXCEPT !.rm.currentRound = 0, !.rm.state = "countdown",
                             !.rm.winner = NoPlayer, !.game.detached = <<>>], modifier)

\* The body of updateCountdown after `this.countdownTimer -= deltaTime`: timer
\* is the new countdownTimer, elapsed tells timer <= 0, and restart is the
\* 1000 the timer is set back to (all in the caller's representation of time).
countdownStep(w, timer, elapsed, restart) ==
    LET value == w.rm.countdownValue - 1
    IN  IF elapsed
        THEN IF value <= 0
             THEN LET r  == [w.rm EXCEPT !.countdownTimer = timer, !.countdownValue = value,
                                         !.state = "playing", !.currentRound = @ + 1,
                                         !.roundTime = 0]
                      w1 == onRoundStart([w EXCEPT !.rm = r], r.currentRound, r.currentModifier)
                      w2 == IF r.currentModifier # "NONE"
                            THEN onModifierAnnounce(w1, r.currentModifier) ELSE w1
                  IN  onCountdownTick(w2, 0)
             ELSE onCountdownTick([w EXCEPT !.rm.countdownTimer = restart,
                                            !.rm.countdownValue = value], value)
        ELSE [w EXCEPT !.rm.countdownTimer = timer]

updateCountdown(w, deltaTime) ==
    countdownStep(w, w.rm.countdownTimer - deltaTime,
                  w.rm.countdownTimer - deltaTime <= 0, COUNT_STEP)

\* The ramp without Math.min(1, ...).
updateDamageMultiplier_unbounded(roundTime) ==
    IF roundTime < DAMAGE_RAMP_START
    THEN BASE_DAMAGE_MULTIPLIER
    ELSE BASE_DAMAGE_MULTIPLIER
         + ((MAX_DAMAGE_MULTIPLIER - BASE_DAMAGE_MULTIPLIER) * (roundTime - DAMAGE_RAMP_START))
              \div DAMAGE_RAMP_DURATION

updateDamageMultiplier(roundTime) ==
    IF roundTime < DAMAGE_RAMP_START
    THEN BASE_DAMAGE_MULTIPLIER
    ELSE BASE_DAMAGE_MULTIPLIER
         + Min(MAX_DAMAGE_MULTIPLIER - BASE_DAMAGE_MULTIPLIER,
               ((MAX_DAMAGE_MULTIPLIER - BASE_DAMAGE_MULTIPLIER) * (roundTime - DAMAGE_RAMP_START))
                  \div DAMAGE_RAMP_DURATION)

\* The loop of forceRoundEnd over alivePlayers: closestPlayer is replaced only
\* by a strictly smaller distance, so it ends as the first of the minima.
\* dist[i] is the value read as player.distanceFromCenter || 0.
ClosestPlayer(alive, dist) ==
    CHOOSE i \in alive :
        /\ \A j \in alive : dist[i] <= dist[j]
        /\ \A j \in alive : (j < i) => dist[j] > dist[i]

EndRound(w, winnerIdx, ps, reason) ==
    LET ps1 == IF winnerIdx # NoPlayer THEN [ps EXCEPT ![winnerIdx] = addWin(@)] ELSE ps
        r   == [w.rm EXCEPT !.roundWinner = winnerIdx, !.state = "roundEnd",
                            !.roundEndTimer = ROUND_END_DELAY]
    IN  onRoundEnd([w EXCEPT !.rm = r, !.players = ps1], winnerIdx, r.currentRound, reason)

checkRoundEnd(w) ==
    LET alive == AliveIdx(w.players)
    IN  IF Cardinality(alive) <= 1
        THEN EndRound(w, IF Cardinality(alive) = 1 THEN FirstOf(alive) ELSE NoPlayer,
                      w.players, "knockout")
        ELSE w

\* The final countdown elapsing without a forced resolution: only the normal
\* round-end check is made.
forceRoundEnd_unforced(w, dist) == checkRoundEnd(w)

\* dist: the distanceFromCenter the previous tick recorded on each living actor
\* (Game.fixedUpdate lines 485-488); the lifecycle model does not track
\* positions, so the recorded values are an input of the tick that reads them.
forceRoundEnd(w, dist) ==
    LET ps    == w.players
        alive == AliveIdx(ps)
    IN  IF alive = {} THEN EndRound(w, NoPlayer, ps, "timeout")
        ELSE IF Cardinality(alive) = 1 THEN EndRound(w, FirstOf(alive), ps, "timeout")
        ELSE LET closest == ClosestPlayer(alive, dist)
                 ps1 == [i \in Indices(ps) |->
                            IF ps[i].isAlive /\ i # closest THEN eliminate(ps[i]) ELSE ps[i]]
             IN  EndRound(w, closest, ps1, "timeout")

FinalCountdownElapsed(finalCountdownTime) == finalCountdownTime <= 0

updatePlaying(w, deltaTime, dist) ==
    LET roundTime == w.rm.roundTime + deltaTime
        r1 == [w.rm EXCEPT !.roundTime = roundTime,
                           !.damageMultiplier = updateDamageMultiplier(roundTime)]
        latchInst == ~r1.instabilityActive /\ roundTime >= INSTABILITY_START
        r2 == IF latchInst THEN [r1 EXCEPT !.instabilityActive = TRUE] ELSE r1
        w2 == IF latchInst THEN onEscalation([w EXCEPT !.rm = r2]) ELSE [w EXCEPT !.rm = r2]
        latchFinal == ~r2.finalCountdownActive /\ roundTime >= FINAL_COUNTDOWN_START
        r3 == IF latchFinal
              THEN [r2 EXCEPT !.finalCountdownActive = TRUE,
                              !.finalCountdownTime = FINAL_COUNTDOWN_DURATION]
              ELSE r2
        w3 == IF latchFinal
              THEN onFinalCountdown([w2 EXCEPT !.rm = r3], CeilSeconds(FINAL_COUNTDOWN_DURATION))
              ELSE w2
    IN  IF r3.finalCountdownActive
        THEN LET t  == r3.finalCountdownTime - deltaTime
                 w4 == onFinalCountdown([w3 EXCEPT !.rm.finalCountdownTime = t], CeilSeconds(t))
             IN  IF FinalCountdownElapsed(t) THEN forceRoundEnd(w4, dist) ELSE checkRoundEnd(w4)
        ELSE checkRoundEnd(w3)

RoundEndElapsed(roundEndTimer) == roundEndTimer <= 0

MatchWinners(ps) == {i \in Indices(ps) : hasWonMatch(ps[i])}

updateRoundEnd(w, deltaTime, modifier) ==
    LET t  == w.rm.roundEndTimer - deltaTime
        w1 == [w EXCEPT !.rm.roundEndTimer = t]
    IN  IF RoundEndElapsed(t)
        THEN IF MatchWinners(w.players) # {}
             THEN LET matchWinner == FirstOf(MatchWinners(w.players))
                  IN  onMatchEnd([w1 EXCEPT !.rm.winner = matchWinner, !.rm.state = "matchEnd",
                                            !.rm.roundEndTimer = MATCH_END_DELAY], matchWinner)
             ELSE startCountdown(w1, modifier)
        ELSE w1

update(w, deltaTime, modifier, dist) ==
    CASE w.rm.state = "countdown" -> updateCountdown(w, deltaTime)
      [] w.rm.state = "playing"   -> updatePlaying(w, deltaTime, dist)
      [] w.rm.state = "roundEnd"  -> updateRoundEnd(w, deltaTime, modifier)
      [] OTHER                    -> w

\* ------------------------------------------------------------------ Game
NewGame == [roundResetDone |-> FALSE, activeModifier |-> NoModifier,
            gamepadStartPreviousState |-> FALSE, detached |-> <<>>]

initializePlayers(count) == [i \in 1..count |-> NewPlayer]

\* startNewMatch without the reset of the win counters.
startNewMatch_keepWins(w, modifier) ==
    LET ps == [i \in Indices(w.players) |-> reset(w.players[i])]
        w1 == [w EXCEPT !.arena = arenaReset(w.arena), !.players = ps,
                        !.game.roundResetDone = TRUE]
    IN  startMatch(w1, modifier)

startNewMatch(w, modifier) ==
    LET ps == [i \in Indices(w.players) |-> reset([w.players[i] EXCEPT !.wins = 0])]
        w1 == [w EXCEPT !.arena = arenaReset(w.arena), !.players = ps,
                        !.game.roundResetDone = TRUE]
    IN  startMatch(w1, modifier)

\* value || 1, in percent: a missing field (and 0) counts as 1.
OrOne(percent) == IF percent = 0 THEN DefaultScale ELSE percent

\* The modifier effects fixedUpdate reads off this.activeModifier (null when
\* no round is played): frictionMod = modifier?.friction || 1, and the like.
modifierEffects(activeModifier) ==
    LET fields == IF activeModifier = NoModifier THEN ModifierFields("NONE")
                  ELSE ModifierFields(activeModifier)
    IN  [frictionMod |-> OrOne(fields.friction),
         speedMod    |-> OrOne(fields.speedMultiplier),
         pushMod     |-> OrOne(fields.pushMultiplier),
         bounceMod   |-> OrOne(fields.bounceMultiplier)]

\* resetForRound without arena.reset().
resetForRound_keepArena(w) ==
    [w EXCEPT !.players = [i \in Indices(w.players) |-> reset(w.players[i])]]

resetForRound(w) ==
    [w EXCEPT !.arena = arenaReset(w.arena),
              !.players = [i \in Indices(w.players) |-> reset(w.players[i])]]

\* Physics.checkArenaBoundary + Game.onPlayerEliminated for the actors whose
\* position the arena reports as fully outside (out).
checkArenaBoundaries(ps, out) ==
    [i \in Indices(ps) |-> IF ps[i].isAlive /\ i \in out THEN eliminate(ps[i]) ELSE ps[i]]

\* The per-actor loop of fixedUpdate: a living actor is moved by input,
\* friction, integration and collisions to a position the lifecycle model
\* does not track; a dead actor is frozen.
movePlayers(ps) ==
    [i \in Indices(ps) |->
        IF ps[i].isAlive THEN [ps[i] EXCEPT !.position = Elsewhere] ELSE ps[i]]

\* out: the living actors found fully outside the arena by the boundary check.
fixedUpdate(w, deltaTime, modifier, dist, out) ==
    CHOOSE result \in
        { IF ~isPlaying(w2.rm)
          THEN IF w2.rm.state = "countdown" /\ ~w2.game.roundResetDone
               THEN [resetForRound(w2) EXCEPT !.game.roundResetDone = TRUE]
               ELSE w2
          ELSE LET ps1 == movePlayers(w2.players)
                   a   == setAliveCount(w2.arena, Cardinality(AliveIdx(ps1)))
                   ps2 == checkArenaBoundaries(ps1, out)
               IN  [w2 EXCEPT !.players = ps2, !.arena = a]
          : w2 \in { [w1 EXCEPT !.arena = arenaUpdate(w1.arena, deltaTime, isPlaying(w1.rm))]
                     : w1 \in {update(w, deltaTime, modifier, dist)} } } : TRUE

\* initializePlayers replaces Game.players by new objects; RoundManager.winner
\* keeps referring to the Player object it was set to, which is kept here as
\* game.detached once it has left Game.players.
setPlayerCount(w, count) ==
    [w EXCEPT !.arena = arenaReset(w.arena), !.players = initializePlayers(count),
              !.game.roundResetDone = FALSE,
              !.game.detached = IF w.rm.winner # NoPlayer /\ @ = <<>>
                                THEN <<w.players[w.rm.winner]>> ELSE @]

\* The Player object RoundManager.winner refers to.
winnerObject(r, ps, g) == IF g.detached # <<>> THEN g.detached[1] ELSE ps[r.winner]

\* --------------------------------------------------------------- actions
Init ==
    /\ rm = NewRoundManager
    /\ players = initializePlayers(DefaultPlayerCount)
    /\ arena = NewArena
    /\ game = NewGame
    /\ touch = [startPressed |-> FALSE]
    /\ emitted = <<>>

Commit(w) ==
    /\ rm' = w.rm
    /\ players' = w.players
    /\ arena' = w.arena
    /\ game' = w.game
    /\ emitted' = w.ev

\* The random modifier is read only in the tick that starts a countdown
\* after a round; a start signal makes its own draw.
ModifierChoices ==
    IF rm.state = "roundEnd" /\ RoundEndElapsed(rm.roundEndTimer - FIXED_TIMESTEP)
    THEN Modifiers
    ELSE {"NONE"}

\* The recorded distances are read only in the tick in which the final
\* countdown elapses.
DistChoices ==
    IF /\ rm.state = "playing"
       /\ rm.finalCountdownActive
       /\ FinalCountdownElapsed(rm.finalCountdownTime - FIXED_TIMESTEP)
    THEN [AliveIdx(players) -> Dists]
    ELSE {[i \in AliveIdx(players) |-> 0]}

\* One simulation tick: Game.fixedUpdate(FIXED_TIMESTEP).
Tick ==
    /\ ~(rm.state = "countdown" /\ rm.currentRound >= MaxRounds)
    /\ \E modifier \in ModifierChoices, dist \in DistChoices :
         LET w1 == update(World, FIXED_TIMESTEP, modifier, dist)
             alive == IF isPlaying(w1.rm) THEN AliveIdx(w1.players) ELSE {}
         IN  \E out \in SUBSET alive :
                \E w \in {fixedUpdate(World, FIXED_TIMESTEP, modifier, dist, out)} :
                    Commit(w)
    /\ UNCHANGED touch

\* keydown Space
KeyStart ==
    /\ IF isWaiting(rm) \/ isMatchOver(rm)
       THEN \E modifier \in Modifiers : Commit(startNewMatch(World, modifier))
       ELSE UNCHANGED <<rm, players, arena, game, emitted>>
    /\ UNCHANGED touch

\* Game.checkGamepadStart, polled once per frame with the pad's button 0.
CheckGamepadStart ==
    \E isPressed \in BOOLEAN :
        /\ IF ~isWaiting(rm) /\ ~isMatchOver(rm)
           THEN UNCHANGED <<rm, players, arena, game, emitted>>
           ELSE LET wasPressed == game.gamepadStartPreviousState
                    w == [World EXCEPT !.game.gamepadStartPreviousState = isPressed]
                IN  IF isPressed /\ ~wasPressed
                    THEN \E modifier \in Modifiers : Commit(startNewMatch(w, modifier))
                    ELSE /\ game' = w.game
                         /\ UNCHANGED <<rm, players, arena, emitted>>
        /\ UNCHANGED touch

\* touchstart on the start button
TouchStartPress ==
    /\ touch' = [touch EXCEPT !.startPressed = TRUE]
    /\ UNCHANGED <<rm, players, arena, game, emitted>>

\* Game.checkTouchStart, polled once per frame; getStart() consumes the press.
CheckTouchStart ==
    IF ~isWaiting(rm) /\ ~isMatchOver(rm)
    THEN UNCHANGED vars
    ELSE /\ touch' = [touch EXCEPT !.startPressed = FALSE]
         /\ IF touch.startPressed
            THEN \E modifier \in Modifiers : Commit(startNewMatch(World, modifier))
            ELSE UNCHANGED <<rm, players, arena, game, emitted>>

\* click on a player-count button of the start screen: the count is chosen
\* between matches, while the game waits for a start signal.
SetPlayerCount ==
    /\ isWaiting(rm) \/ isMatchOver(rm)
    /\ \E count \in MinPlayerCount..MaxPlayers :
        LET w == setPlayerCount(World, count)
        IN  /\ players' = w.players
            /\ arena' = w.arena
            /\ game' = w.game
            /\ UNCHANGED <<rm, touch, emitted>>

\* A match of 2..MaxPlayers actors started (and restarted) from the keyboard.
Next ==
    \/ Tick
    \/ KeyStart
    \/ SetPlayerCount

Spec == Init /\ [][Next]_vars

\* ------------------------------------------------ matches played to the end
\* A match of the default two actors followed until an actor has won it: a
\* best of five when no round is drawn.
TickOfWins ==
    /\ ~(rm.state = "countdown" /\ rm.currentRound >= MaxWinRounds)
    /\ \E modifier \in ModifierChoices, dist \in DistChoices :
         LET w1 == update(World, FIXED_TIMESTEP, modifier, dist)
             alive == IF isPlaying(w1.rm) THEN AliveIdx(w1.players) ELSE {}
         IN  \E out \in SUBSET alive :
                \E w \in {fixedUpdate(World, FIXED_TIMESTEP, modifier, dist, out)} :
                    Commit(w)
    /\ UNCHANGED touch

NextWins ==
    \/ TickOfWins
    \/ KeyStart

SpecWins == Init /\ [][NextWins]_vars


\* ------------------------------------------------ matches of actors that stand
\* Arena.getSpawnPositions(playerCount): the first playerCount of the four
\* spawn points, 80 pixels inside the bounds the arena has at the call.
SpawnPadding == 80
getSpawnPositions(a, playerCount) ==
    LET b == bounds(a)
        spawnPoints ==
            << [x |-> b.left + SubPixels(SpawnPadding),  y |-> SubPixels(centerY)],
               [x |-> b.right - SubPixels(SpawnPadding), y |-> SubPixels(centerY)],
               [x |-> SubPixels(centerX), y |-> b.top + SubPixels(SpawnPadding)],
               [x |-> SubPixels(centerX), y |-> b.bottom - SubPixels(SpawnPadding)] >>
    IN  [i \in 1..playerCount |-> spawnPoints[i]]

\* The spawn position actor i holds.  initializePlayers, startNewMatch and
\* resetForRound all take the spawn positions right after arena.reset().
SpawnOfActor(ps, a, i) == getSpawnPositions(arenaReset(a), Len(ps))[i]

\* Actor i where it stands when it has not moved since its reset.
StandingActor(ps, a, i) ==
    [isAlive |-> ps[i].isAlive, wins |-> ps[i].wins, position |-> SpawnOfActor(ps, a, i)]

\* One simulation tick of a match in which no actor gives input and no force
\* or collision moves one: the boundary check finds every actor at its spawn.
TickStanding ==
    /\ ~(rm.state = "countdown" /\ rm.currentRound >= MaxRounds)
    /\ \E modifier \in ModifierChoices, dist \in DistChoices :
         LET w1  == update(World, FIXED_TIMESTEP, modifier, dist)
             a1  == arenaUpdate(w1.arena, FIXED_TIMESTEP, isPlaying(w1.rm))
             out == IF isPlaying(w1.rm)
                    THEN {i \in AliveIdx(w1.players) :
                            checkArenaBoundary(StandingActor(w1.players, a1, i), a1)}
                    ELSE {}
         IN  \E w \in {fixedUpdate(World, FIXED_TIMESTEP, modifier, dist, out)} : Commit(w)
    /\ UNCHANGED touch

NextStanding ==
    \/ TickStanding
    \/ KeyStart
    \/ SetPlayerCount

SpecStanding == Init /\ [][NextStanding]_vars

\* A match of the default two actors in which nobody is knocked out: every
\* round runs through the final countdown to the forced end.
\* requestAnimationFrame keeps calling fixedUpdate, and a start signal
\* arrives whenever the game waits for one.
TickNoKnockout ==
    /\ ~(rm.state = "countdown" /\ rm.currentRound >= MaxRounds)
    /\ \E modifier \in ModifierChoices, dist \in DistChoices :
         \E w \in {fixedUpdate(World, FIXED_TIMESTEP, modifier, dist, {})} : Commit(w)
    /\ UNCHANGED touch

NextLoop ==
    \/ TickNoKnockout
    \/ KeyStart

SpecLoop == Init /\ [][NextLoop]_vars /\ WF_vars(TickNoKnockout) /\ WF_vars(KeyStart)

\* The three start channels (keyboard, gamepad, touch) around a match of the
\* default two actors.
NextStart ==
    \/ Tick
    \/ KeyStart
    \/ CheckGamepadStart
    \/ TouchStartPress
    \/ CheckTouchStart

SpecStart == Init /\ [][NextStart]_vars

\* ---------------------------------------- the forced end on the centre line
\* The last ticks of a round with the actors on the horizontal line through
\* the arena centre (y = centerY), where every distance of the source is exact:
\* sqrt(dx*dx + 0) = |dx| and the collision normal is +1 or -1.  A position is
\* an x coordinate in 64ths of a pixel, which keeps every halving of an
\* overlap exact for up to four actors.
\* Half of the width of the arena, in subpixels.
boundsHalfWidth(a) == a.width \div 2

\* The distance Game.fixedUpdate records on an actor
distanceFromCenter(x) == Abs(x - SubPixels(centerX))

checkCircleCollision(ps, i, j) ==
    Abs(ps[j].position - ps[i].position) < SubPixels(PLAYER_RADIUS + PLAYER_RADIUS)

\* The separation of Physics.resolveCollision (the impulse changes velocities,
\* which move no actor within this tick).
resolveCollision(ps, i, j) ==
    LET dx          == ps[j].position - ps[i].position
        distance    == Abs(dx)
        minDistance == SubPixels(PLAYER_RADIUS + PLAYER_RADIUS)
        nx          == IF dx < 0 THEN -1 ELSE 1
        separationX == ((minDistance - distance) \div 2) * nx
    IN  IF ~ps[i].isAlive \/ ~ps[j].isAlive \/ distance >= minDistance \/ distance = 0
        THEN ps
        ELSE [ps EXCEPT ![i].position = @ - separationX, ![j].position = @ + separationX]

\* One pair of the nested loops of Game.processCollisionsWithEffects.
CollidePair(ps, i, j) ==
    IF ps[i].isAlive /\ ps[j].isAlive /\ checkCircleCollision(ps, i, j)
    THEN resolveCollision(ps, i, j)
    ELSE ps

\* The nested loops: pairs (i, j), i < j, in index order, each resolved on the
\* positions the earlier pairs left.
RECURSIVE CollidePairsFrom(_, _, _)
CollidePairsFrom(ps, i, j) ==
    IF i > Len(ps) THEN ps
    ELSE IF j > Len(ps) THEN CollidePairsFrom(ps, i + 1, i + 2)
    ELSE CHOOSE result \in {CollidePairsFrom(next, i, j + 1) : next \in {CollidePair(ps, i, j)}} :
            TRUE

processCollisionsWithEffects(ps) == CollidePairsFrom(ps, 1, 2)

\* The per-actor loop of Game.fixedUpdate with positions: velocity[i] is the
\* velocity, in pixels per tick, Player.update adds to the position of actor
\* i; the distance from the centre is recorded where the actor then is.
moveOnLine(ps, velocity) ==
    [i \in Indices(ps) |->
        LET x == IF ps[i].isAlive THEN ps[i].position + SubPixels(velocity[i])
                 ELSE ps[i].position
        IN  [ps[i] EXCEPT !.position = x, !.distanceFromCenter = distanceFromCenter(x)]]

\* The boundary check that ends Game.fixedUpdate.
checkArenaBoundaryOnLine(a, ps) ==
    [i \in Indices(ps) |->
        IF /\ ps[i].isAlive
           /\ isEliminated(a, ps[i].position, SubPixels(centerY), SubPixels(PLAYER_RADIUS))
        THEN eliminate(ps[i])
        ELSE ps[i]]

\* Game.fixedUpdate from the per-actor loop on: move and record, count the
\* living, resolve collisions, check the boundary.
physicsOnLine(w, velocity) ==
    CHOOSE result \in
        {[w EXCEPT !.players = checkArenaBoundaryOnLine(w.arena, collided),
                   !.arena = setAliveCount(w.arena, Cardinality(AliveIdx(collided)))] :
            collided \in {processCollisionsWithEffects(moved) :
                            moved \in {moveOnLine(w.players, velocity)}}} : TRUE

\* Game.fixedUpdate up to the per-actor loop: the round manager (which reads
\* the distances the previous tick recorded), then the arena.
roundAndArena(w, deltaTime) ==
    LET recorded == [i \in AliveIdx(w.players) |-> w.players[i].distanceFromCenter]
        w1 == update(w, deltaTime, "NONE", recorded)
    IN  [w1 EXCEPT !.arena = arenaUpdate(w1.arena, deltaTime, isPlaying(w1.rm))]

\* Game.fixedUpdate with positions.  It is applied to playing states only, so
\* a tick that leaves 'playing' lands in 'roundEnd', where the one-time reset
\* of the countdown branch does not apply.
fixedUpdateOnLine(w, deltaTime, velocity) ==
    CHOOSE result \in
        {IF isPlaying(advanced.rm) THEN physicsOnLine(advanced, velocity) ELSE advanced :
            advanced \in {roundAndArena(w, deltaTime)}} : TRUE

\* x coordinates, in pixels, the actors stand at, and the velocities they move
\* with (Player.update limits the speed of an actor that is not dashing to
\* MAX_SPEED).
StartXs == {398, 448, 500, 544, 594, 681}
Velocities == {-MAX_SPEED, 0, MAX_SPEED}
\* The actors stand clear of one another.
LineUps ==
    {xs \in [1..MaxPlayers -> StartXs] :
        \A i, j \in 1..MaxPlayers :
            i < j => Abs(xs[j] - xs[i]) >= PLAYER_RADIUS + PLAYER_RADIUS}
PlayerOnLine(p, x) ==
    [isAlive |-> p.isAlive, wins |-> p.wins, position |-> SubPixels(x),
     distanceFromCenter |-> distanceFromCenter(SubPixels(x))]

\* The last two ticks of the final countdown are still to come.
LastTicks(r) ==
    /\ isPlaying(r)
    /\ r.finalCountdownActive
    /\ FinalCountdownElapsed(r.finalCountdownTime - 2 * FIXED_TIMESTEP)

\* A match of MaxPlayers actors, started.
MatchOnLine ==
    startNewMatch([rm |-> NewRoundManager, players |-> initializePlayers(MaxPlayers),
                   arena |-> NewArena, game |-> NewGame, ev |-> <<>>], "NONE")

InitForce ==
    /\ rm = MatchOnLine.rm
    /\ players = MatchOnLine.players
    /\ arena = MatchOnLine.arena
    /\ game = MatchOnLine.game
    /\ touch = [startPressed |-> FALSE]
    /\ emitted = MatchOnLine.ev

\* A tick of the first round in which no actor leaves the arena.  The tick
\* that brings the round to its last two ticks leaves the actors at a line-up.
TickToLine ==
    /\ rm.state \in {"countdown", "playing"}
    /\ ~LastTicks(rm)
    /\ LET w == fixedUpdate(World, FIXED_TIMESTEP, "NONE",
                            [i \in AliveIdx(players) |-> 0], {})
       IN  IF LastTicks(w.rm)
           THEN \E xs \in LineUps :
                   Commit([w EXCEPT !.players =
                              [i \in Indices(w.players) |-> PlayerOnLine(w.players[i], xs[i])]])
           ELSE Commit(w)
    /\ UNCHANGED touch

\* One of the last ticks of the round, with the actors on the line.
TickOnLine ==
    /\ LastTicks(rm)
    /\ \E velocity \in [Indices(players) -> Velocities] :
          Commit(fixedUpdateOnLine(World, FIXED_TIMESTEP, velocity))
    /\ UNCHANGED touch

NextForce ==
    \/ TickToLine
    \/ TickOnLine

SpecForce == InitForce /\ [][NextForce]_vars

\* ------------------------------------------------ the arena and one actor
\* The arena as Game drives it, call by call, around one actor placed in the
\* plane: the calls of a tick (update, setAliveCount, the forces, the boundary
\* check) and of the handlers (round start, reset, centrifuge start) in any
\* order and with any argument the callers pass.
ArenaScales == {ModifierArenaScale(m) : m \in Modifiers}
ShrinkSpeeds == {ModifierShrinkSpeed(m) : m \in Modifiers}
RoundTimeCap == FINAL_COUNTDOWN_START + FINAL_COUNTDOWN_DURATION
\* Positions, in pixels, the actor is placed at.
ActorXs == {20, 60, 500, 620}
ActorYs == {60, 350}
ActorAt(x, y) ==
    [isAlive |-> TRUE, wins |-> 0, position |-> [x |-> SubPixels(x), y |-> SubPixels(y)]]

InitArena ==
    /\ rm = NewRoundManager
    /\ players = <<ActorAt(ARENA_PADDING + 80, centerY)>>
    /\ arena = NewArena
    /\ game = NewGame
    /\ touch = [startPressed |-> FALSE]
    /\ emitted = <<>>

\* arena.update(deltaTime, isPlaying)
ArenaUpdate ==
    /\ arena.roundTime < RoundTimeCap
    /\ \E playing \in BOOLEAN : arena' = arenaUpdate(arena, FIXED_TIMESTEP, playing)
    /\ emitted' = <<>>
    /\ UNCHANGED <<rm, players, game, touch>>

\* arena.setScale(modifier.arenaScale)
ArenaSetScale ==
    /\ \E scale \in ArenaScales : arena' = setScale(arena, scale)
    /\ emitted' = <<>>
    /\ UNCHANGED <<rm, players, game, touch>>

\* arena.setShrinkSpeed(modifier.shrinkSpeed)
ArenaSetShrinkSpeed ==
    /\ \E mult \in ShrinkSpeeds : arena' = setShrinkSpeed(arena, mult)
    /\ emitted' = <<>>
    /\ UNCHANGED <<rm, players, game, touch>>

\* arena.setAliveCount(aliveCount)
ArenaSetAliveCount ==
    /\ \E count \in 0..MaxPlayers :
          /\ arena' = setAliveCount(arena, count)
          /\ emitted' = <<Ev("aliveCount", NoPlayer, count, "")>>
    /\ UNCHANGED <<rm, players, game, touch>>

\* arena.reset() and player.reset() of Game.resetForRound
ArenaReset ==
    /\ arena' = arenaReset(arena)
    /\ players' = <<ActorAt(ARENA_PADDING + 80, centerY)>>
    /\ emitted' = <<>>
    /\ UNCHANGED <<rm, game, touch>>

\* The handler Game installs as roundManager.onCentrifugeStart, run in the
\* final countdown, which it hides.
OnCentrifugeStart ==
    /\ arena.roundTime >= FINAL_COUNTDOWN_START
    /\ LET w == onCentrifugeStart(World)
       IN  arena' = w.arena /\ emitted' = w.ev
    /\ UNCHANGED <<rm, players, game, touch>>

\* The living actor moved to another place.
ActorMoves ==
    /\ players[1].isAlive
    /\ \E x \in ActorXs, y \in ActorYs : players' = <<ActorAt(x, y)>>
    /\ emitted' = <<>>
    /\ UNCHANGED <<rm, arena, game, touch>>

\* The arena forces of the per-actor loop of Game.fixedUpdate
ApplyArenaForces ==
    /\ emitted' = [k \in 1..1 |-> Ev("forces", 1, 0, arenaForces(arena, players[1]))]
    /\ UNCHANGED <<rm, players, arena, game, touch>>

\* The boundary check that ends Game.fixedUpdate
CheckArenaBoundary ==
    /\ IF checkArenaBoundary(players[1], arena)
       THEN /\ players' = <<eliminate(players[1])>>
            /\ emitted' = <<Ev("boundary", 1, 0, "eliminated")>>
       ELSE /\ players' = players
            /\ emitted' = <<Ev("boundary", 1, 0, "kept")>>
    /\ UNCHANGED <<rm, arena, game, touch>>

\* Rounds of the rectangular arena.
NextArena ==
    \/ ArenaUpdate
    \/ ArenaSetScale
    \/ ArenaSetShrinkSpeed
    \/ ArenaSetAliveCount
    \/ ArenaReset
    \/ ActorMoves
    \/ ApplyArenaForces
    \/ CheckArenaBoundary

SpecArena == InitArena /\ [][NextArena]_vars

\* One round in which the centrifuge is started.
NextCentrifuge ==
    \/ ArenaUpdate
    \/ ArenaSetScale
    \/ ArenaSetShrinkSpeed
    \/ ArenaSetAliveCount
    \/ OnCentrifugeStart
    \/ ActorMoves
    \/ ApplyArenaForces
    \/ CheckArenaBoundary

SpecCentrifuge == InitArena /\ [][NextCentrifuge]_vars

\* ------------------------------------------------- the physics of an actor
\* One actor on a horizontal line, as Game.fixedUpdate drives it call by call:
\* handleInput, update and the forces of the per-actor loop, the collision
\* with an opponent, the boundary check.  A velocity is the x component, in
\* tenths of a pixel per tick, rounded toward zero; a movement vector and a
\* direction are -1, 0 or 1.  The place of the actor is kept only as far as
\* it tells a displacement: every displacement leads to another place.
Beyond == "beyond"
Quot(a, b) == IF a >= 0 THEN a \div b ELSE -((-a) \div b)
Tenths(hundredths) == Quot(hundredths, 10)
Scaled(value, thousandths) == Quot(value * thousandths, 1000)
\* Vector2.add on a position
Displaced(position, velocity) ==
    IF velocity = 0 THEN position
    ELSE IF position = Elsewhere THEN Beyond ELSE Elsewhere
\* Vector2.normalize
normalize(v) == IF v > 0 THEN 1 ELSE IF v < 0 THEN -1 ELSE 0
\* Vector2.limit
limitMagnitude(v, max) == IF v * v > max * max THEN normalize(v) * max ELSE v

PhysicalPlayer ==
    [isAlive |-> TRUE, wins |-> 0, position |-> AtSpawn, velocity |-> 0,
     isDashing |-> FALSE, dashTimeRemaining |-> 0, dashCooldown |-> 0,
     lastMoveDirection |-> 1, idleTime |-> 0, isIdle |-> FALSE]

playerReset(p) ==
    [p EXCEPT !.position = AtSpawn, !.velocity = 0, !.isAlive = TRUE,
              !.isDashing = FALSE, !.dashTimeRemaining = 0, !.dashCooldown = 0,
              !.idleTime = 0, !.isIdle = FALSE]

playerEliminate(p) == [p EXCEPT !.isAlive = FALSE, !.velocity = 0]

canDash(p) == ~p.isDashing /\ p.dashCooldown <= 0

startDash(p, direction, speedMultiplier) ==
    [p EXCEPT !.isDashing = TRUE,
              !.dashTimeRemaining = DASH_DURATION,
              !.dashCooldown = DASH_COOLDOWN,
              !.lastMoveDirection = normalize(direction),
              !.velocity = normalize(direction) *
                  Scaled(Tenths(MAX_SPEED * 100) * DASH_SPEED_MULTIPLIER, speedMultiplier * 10)]

\* The timers of handleInput: the cooldown, then the dash.
updateDashCooldown(p, deltaTime) ==
    IF p.dashCooldown > 0 THEN [p EXCEPT !.dashCooldown = @ - deltaTime] ELSE p

\* The dash that ends only once the time left is below zero.
updateDashState_late(p, deltaTime) ==
    IF p.isDashing
    THEN [p EXCEPT !.dashTimeRemaining = @ - deltaTime,
                   !.isDashing = ~(p.dashTimeRemaining - deltaTime < 0)]
    ELSE p

updateDashState(p, deltaTime) ==
    IF p.isDashing
    THEN [p EXCEPT !.dashTimeRemaining = @ - deltaTime,
                   !.isDashing = ~(p.dashTimeRemaining - deltaTime <= 0)]
    ELSE p

\* The dash attempt that takes any dash request, moving or not.
tryDash_anyMovement(p, movement, dash, speedMultiplier) ==
    IF dash /\ canDash(p)
    THEN [player |-> startDash(p, movement, speedMultiplier), dashStarted |-> TRUE]
    ELSE [player |-> p, dashStarted |-> FALSE]

\* The dash attempt of handleInput.
tryDash(p, movement, dash, speedMultiplier) ==
    IF dash /\ canDash(p) /\ Abs(movement) > 0
    THEN [player |-> startDash(p, movement, speedMultiplier), dashStarted |-> TRUE]
    ELSE [player |-> p, dashStarted |-> FALSE]

\* The movement acceleration of handleInput.
accelerate(p, movement, speedMultiplier) ==
    IF ~p.isDashing /\ Abs(movement) > 0
    THEN [p EXCEPT !.velocity = @ + movement * Scaled(Tenths(ACCELERATION), speedMultiplier * 10),
                   !.lastMoveDirection = normalize(movement)]
    ELSE p

\* Player.handleInput; speedMultiplier in percent.  The result is the actor
\* and the value returned.
handleInput(p, movement, dash, deltaTime, speedMultiplier) ==
    IF ~p.isAlive
    THEN [player |-> p, dashStarted |-> FALSE]
    ELSE CHOOSE result \in
            { IF tried.dashStarted
              THEN tried
              ELSE [player |-> accelerate(tried.player, movement, speedMultiplier),
                    dashStarted |-> FALSE]
              : tried \in { tryDash(timed, movement, dash, speedMultiplier)
                            : timed \in { updateDashState(updateDashCooldown(p, deltaTime),
                                                          deltaTime) } } } : TRUE

\* The idle tracking of Player.update.
trackIdle(p, deltaTime) ==
    IF Abs(p.velocity) * 10 < IdleSpeed
    THEN [p EXCEPT !.idleTime = @ + deltaTime,
                   !.isIdle = @ \/ (p.idleTime + deltaTime >= MaxIdleTime)]
    ELSE [p EXCEPT !.idleTime = 0, !.isIdle = FALSE]

\* The friction without its clamp.
clampedFriction_unclamped(p, frictionMultiplier) ==
    Scaled(IF p.isDashing THEN DashFriction ELSE FRICTION, frictionMultiplier * 10)

clampedFriction(p, frictionMultiplier) ==
    Min(MaxFriction, Max(MinFriction,
        Scaled(IF p.isDashing THEN DashFriction ELSE FRICTION, frictionMultiplier * 10)))

maxSpeed(p) ==
    IF p.isDashing THEN Tenths(MAX_SPEED * 100) * DASH_SPEED_MULTIPLIER
    ELSE Tenths(MAX_SPEED * 100)

\* Friction, the speed limit and the integration of Player.update.
integrate(p, frictionMultiplier) ==
    CHOOSE result \in
        { [p EXCEPT !.velocity = v, !.position = Displaced(@, v)]
          : v \in { limitMagnitude(Scaled(p.velocity, clampedFriction(p, frictionMultiplier)),
                                   maxSpeed(p)) } } : TRUE

\* Player.update; frictionMultiplier in percent.
playerUpdate(p, deltaTime, frictionMultiplier) ==
    IF ~p.isAlive
    THEN p
    ELSE CHOOSE result \in
            { integrate(tracked, frictionMultiplier) : tracked \in {trackIdle(p, deltaTime)} } :
            TRUE

\* What the arena and the round manager hold for the place of the actor in a
\* tick: the modes in force and the side of the centre the actor is on (away
\* is the direction from the centre to the actor, 0 at the centre itself).
Surroundings(centrifugeMode, suddenDeathActive, instabilityActive, away) ==
    [centrifugeMode |-> centrifugeMode, suddenDeathActive |-> suddenDeathActive,
     instabilityActive |-> instabilityActive, away |-> away]
SurroundingsOfTick ==
    {Surroundings(FALSE, FALSE, FALSE, 0), Surroundings(FALSE, FALSE, FALSE, 1),
     Surroundings(FALSE, TRUE, TRUE, 1), Surroundings(FALSE, TRUE, FALSE, -1),
     Surroundings(TRUE, TRUE, TRUE, -1)}
\* Arena.getCentrifugeForce, Arena.getSuddenDeathForce (both at a distance of
\* 100 pixels from the centre) and RoundManager.getInstabilityForce (at its
\* largest, pointing right).
getCentrifugeForce(s) ==
    IF s.centrifugeMode THEN s.away * Tenths(CentrifugeMaxForce \div 100) ELSE 0
getSuddenDeathForce(s) ==
    IF s.suddenDeathActive THEN -s.away * Tenths(SuddenDeathForce) ELSE 0
getInstabilityForce(s) ==
    IF s.instabilityActive THEN Tenths(INSTABILITY_MAX_FORCE) ELSE 0

\* The forces of the per-actor loop applied to the dead as well.
applyForces_toAll(p, s) ==
    [p EXCEPT !.velocity = @ + getCentrifugeForce(s) + getSuddenDeathForce(s)
                             + getInstabilityForce(s)]

\* The forces of the per-actor loop of Game.fixedUpdate.
applyForces(p, s) ==
    LET centrifuge  == IF p.isAlive /\ s.centrifugeMode THEN getCentrifugeForce(s) ELSE 0
        suddenDeath == IF p.isAlive /\ s.suddenDeathActive /\ ~s.centrifugeMode
                       THEN getSuddenDeathForce(s) ELSE 0
        instability == IF p.isAlive /\ s.instabilityActive THEN getInstabilityForce(s) ELSE 0
        idlePenalty == IF p.isIdle /\ p.isAlive THEN s.away * Tenths(IdlePushForce) ELSE 0
    IN  [p EXCEPT !.velocity = @ + centrifuge + suddenDeath + instability + idlePenalty]

\* Physics.resolveCollision for two overlapping actors, p2 on the side nx of
\* p1; damageMultiplier in thousandths.  The result is the pair of actors.
resolveOverlap(p1, p2, nx, damageMultiplier) ==
    LET dvn            == (p1.velocity - p2.velocity) * nx
        restitution    == BOUNCE_FACTOR
        totalMass      == p1.mass + p2.mass
        pushMultiplier == Scaled(PUSH_FORCE, damageMultiplier) *
                          (IF p1.isDashing \/ p2.isDashing THEN DASH_PUSH_MULTIPLIER ELSE 1)
        impulse        == Scaled(Quot(Scaled(-dvn, 1000 + restitution), totalMass), pushMultiplier)
        q1             == [p1 EXCEPT !.position = Displaced(@, -nx)]
        q2             == [p2 EXCEPT !.position = Displaced(@, nx)]
    IN  IF ~p1.isAlive \/ ~p2.isAlive THEN <<p1, p2>>
        ELSE IF dvn > 0 THEN <<q1, q2>>
        ELSE <<[q1 EXCEPT !.velocity = @ + impulse * nx * p2.mass],
               [q2 EXCEPT !.velocity = @ - impulse * nx * p1.mass]>>

\* One pair of the loops of Game.processCollisionsWithEffects, the discs of
\* the two actors overlapping.
collidePair(p1, p2, nx, damageMultiplier) ==
    IF ~p1.isAlive \/ ~p2.isAlive THEN <<p1, p2>>
    ELSE resolveOverlap(p1, p2, nx, damageMultiplier)

\* The opponents the actor meets: a record of the fields a collision reads.
Opponent(isAlive, velocity, isDashing) ==
    [isAlive |-> isAlive, position |-> Elsewhere, velocity |-> velocity,
     isDashing |-> isDashing, mass |-> MASS]
Opponents ==
    {Opponent(FALSE, 0, FALSE),
     Opponent(TRUE, 0, FALSE),
     Opponent(TRUE, -Tenths(MAX_SPEED * 100), FALSE),
     Opponent(TRUE, -Tenths(MAX_SPEED * 100) * DASH_SPEED_MULTIPLIER, TRUE)}
DamageMultipliers == {BASE_DAMAGE_MULTIPLIER, MAX_DAMAGE_MULTIPLIER}
Movements == {-1, 0, 1}
\* The idle time up to which the model follows an actor at rest.
IdleTimeCap == MaxIdleTime + DASH_COOLDOWN

\* The place of the game loop in the tick of the actor.
LoopAt(step) == [step |-> step]
\* The fields of the actor a collision reads.
Massive(p) == [isAlive |-> p.isAlive, position |-> p.position, velocity |-> p.velocity,
               isDashing |-> p.isDashing, mass |-> MASS]
\* The actor as a collision with an opponent on its right leaves it.
Collided(p, opponent, damageMultiplier) ==
    CHOOSE result \in
        { [p EXCEPT !.position = pair[1].position, !.velocity = pair[1].velocity]
          : pair \in {collidePair(Massive(p), opponent, 1, damageMultiplier)} } : TRUE

InitActor ==
    /\ rm = NewRoundManager
    /\ players = <<PhysicalPlayer>>
    /\ arena = NewArena
    /\ game = LoopAt("handleInput")
    /\ touch = [startPressed |-> FALSE]
    /\ emitted = <<>>

\* player.handleInput(input, deltaTime, speedMod) of the per-actor loop
ActorHandleInput ==
    /\ game.step = "handleInput"
    /\ \E movement \in Movements, dash \in BOOLEAN :
          \E result \in {handleInput(players[1], movement, dash, ActorTickMs, DefaultScale)} :
             /\ players' = <<result.player>>
             /\ emitted' = <<Ev(IF dash THEN "dashRequest" ELSE "moveRequest", 1, movement,
                                IF result.dashStarted THEN "dashStarted" ELSE "")>>
    /\ game' = LoopAt("update")
    /\ UNCHANGED <<rm, arena, touch>>

\* player.update(deltaTime, arena, frictionMod) and the forces of the
\* per-actor loop
ActorUpdate ==
    /\ game.step = "update"
    /\ players[1].idleTime < IdleTimeCap
    /\ \E s \in SurroundingsOfTick :
          players' = <<applyForces(playerUpdate(players[1], ActorTickMs, DefaultScale), s)>>
    /\ emitted' = <<>>
    /\ game' = LoopAt("collisions")
    /\ UNCHANGED <<rm, arena, touch>>

\* processCollisionsWithEffects: the actor overlaps no opponent, or one.
ActorCollides ==
    /\ game.step = "collisions"
    /\ \/ players' = players
       \/ \E opponent \in Opponents, damageMultiplier \in DamageMultipliers :
             players' = <<Collided(players[1], opponent, damageMultiplier)>>
    /\ emitted' = <<>>
    /\ game' = LoopAt("boundary")
    /\ UNCHANGED <<rm, arena, touch>>

\* The boundary check that ends Game.fixedUpdate: the arena finds the actor
\* fully outside, or not.
ActorAtBoundary ==
    /\ game.step = "boundary"
    /\ \E outside \in BOOLEAN :
          players' = <<IF players[1].isAlive /\ outside
                       THEN playerEliminate(players[1]) ELSE players[1]>>
    /\ emitted' = <<>>
    /\ game' = LoopAt("handleInput")
    /\ UNCHANGED <<rm, arena, touch>>

\* RoundManager.forceRoundEnd eliminates the actor at the start of a tick.
ActorForcedOut ==
    /\ game.step = "handleInput"
    /\ players[1].isAlive
    /\ players' = <<playerEliminate(players[1])>>
    /\ emitted' = <<>>
    /\ UNCHANGED <<rm, arena, game, touch>>

\* player.reset() of Game.resetForRound, between two ticks
ActorReset ==
    /\ game.step = "handleInput"
    /\ players' = <<playerReset(players[1])>>
    /\ emitted' = <<>>
    /\ UNCHANGED <<rm, arena, game, touch>>

\* player.startDash(direction, speedMultiplier) called on the actor as it is
ActorStartDash ==
    /\ game.step = "handleInput"
    /\ \E direction \in Movements \ {0} :
          /\ players' = <<startDash(players[1], direction, DefaultScale)>>
          /\ emitted' = <<Ev("startDash", 1, direction, "")>>
    /\ UNCHANGED <<rm, arena, game, touch>>

\* The rounds of one actor in the game.
NextActor ==
    \/ ActorHandleInput
    \/ ActorUpdate
    \/ ActorCollides
    \/ ActorAtBoundary
    \/ ActorForcedOut
    \/ ActorReset

SpecActor == InitActor /\ [][NextActor]_vars

\* The same with startDash as a call of its own.
NextDash ==
    \/ ActorHandleInput
    \/ ActorUpdate
    \/ ActorCollides
    \/ ActorAtBoundary
    \/ ActorForcedOut
    \/ ActorReset
    \/ ActorStartDash

SpecDash == InitActor /\ [][NextDash]_vars

\* The same actor with the update and the forces of the per-actor loop as
\* calls of their own, and the friction multiplier of the update as an
\* argument: the frictionMod of every modifier, and values no modifier has
\* (negative, zero, a half, above the clamp, a thousandfold).
FrictionMultipliers ==
    {modifierEffects(m).frictionMod : m \in Modifiers} \cup {-100, 0, 50, 120, 100000}

\* player.update(deltaTime, this.arena, frictionMod)
ActorUpdateCall ==
    /\ game.step = "update"
    /\ players[1].idleTime < IdleTimeCap
    /\ \E frictionMultiplier \in FrictionMultipliers :
          /\ players' = <<playerUpdate(players[1], ActorTickMs, frictionMultiplier)>>
          /\ emitted' = <<Ev("update", 1, frictionMultiplier, "")>>
    /\ game' = LoopAt("forces")
    /\ UNCHANGED <<rm, arena, touch>>

\* The forces of the per-actor loop, after the update
ActorForces ==
    /\ game.step = "forces"
    /\ \E s \in SurroundingsOfTick : players' = <<applyForces(players[1], s)>>
    /\ emitted' = <<>>
    /\ game' = LoopAt("collisions")
    /\ UNCHANGED <<rm, arena, touch>>

NextFriction ==
    \/ ActorHandleInput
    \/ ActorUpdateCall
    \/ ActorForces
    \/ ActorCollides
    \/ ActorAtBoundary
    \/ ActorForcedOut
    \/ ActorReset

SpecFriction == InitActor /\ [][NextFriction]_vars

\* ------------------------------------------------ the Vector2 objects of an actor
\* The same actor with its position and its spawn position as the Vector2
\* objects they are: a field holds one of the objects of Vectors, game.heap
\* holds the place each object stands for, and a method that changes a vector
\* in place (Vector2.add, Vector2.set) changes the heap under every field that
\* holds it.  A place is a spawn point of the arena or a place an actor has
\* moved to.
Vectors == {"v1", "v2", "v3"}
OtherSpawn == "otherSpawn"
SpawnPoints == {AtSpawn, OtherSpawn}
HeapAt(step, heap) == [step |-> step, heap |-> heap]

\* new Player(id, x, y, color): position and spawnPosition are two objects.
ConstructedPlayer ==
    [isAlive |-> TRUE, wins |-> 0, position |-> "v1", spawnPosition |-> "v2", velocity |-> 0,
     isDashing |-> FALSE, dashTimeRemaining |-> 0, dashCooldown |-> 0,
     lastMoveDirection |-> 1, idleTime |-> 0, isIdle |-> FALSE]

\* new Vector2(...): an object no field of the actor holds.
NewVector(p) == CHOOSE c \in Vectors : c \notin {p.position, p.spawnPosition}
\* The actor with its position read off the heap.
Held(p, heap) == [p EXCEPT !.position = heap[p.position]]
\* What a method leaves that took the actor p, as read off the heap, to q
\* by changing the position vector in place.
Stored(p, q, heap) ==
    [player |-> [q EXCEPT !.position = p.position],
     heap   |-> [heap EXCEPT ![p.position] = q.position]]

\* Player.reset with position = this.spawnPosition, the clone left out.
resetOnHeap_shared(p, heap) ==
    [player |-> [playerReset(p) EXCEPT !.position = p.spawnPosition], heap |-> heap]

\* Player.reset: position = this.spawnPosition.clone().  The vector the
\* position was is held by no field any more; the heap forgets its place.
resetOnHeap(p, heap) ==
    CHOOSE result \in
        { [player |-> [playerReset(p) EXCEPT !.position = c],
           heap   |-> [heap EXCEPT ![c] = heap[p.spawnPosition],
                                   ![p.position] = AtSpawn]] : c \in {NewVector(p)} } : TRUE

\* Player.setSpawnPosition: this.spawnPosition.set(x, y)
setSpawnPosition(p, heap, point) ==
    [player |-> p, heap |-> [heap EXCEPT ![p.spawnPosition] = point]]

InitSpawn ==
    /\ rm = NewRoundManager
    /\ players = <<ConstructedPlayer>>
    /\ arena = NewArena
    /\ game = HeapAt("handleInput", [c \in Vectors |-> AtSpawn])
    /\ touch = [startPressed |-> FALSE]
    /\ emitted = <<>>

\* player.handleInput(input, deltaTime, speedMod)
SpawnedHandleInput ==
    /\ game.step = "handleInput"
    /\ \E movement \in Movements, dash \in BOOLEAN :
          \E result \in {handleInput(players[1], movement, dash, ActorTickMs, DefaultScale)} :
             players' = <<result.player>>
    /\ emitted' = <<>>
    /\ game' = HeapAt("update", game.heap)
    /\ UNCHANGED <<rm, arena, touch>>

\* player.update(deltaTime, arena, frictionMod): this.position.add(this.velocity)
SpawnedUpdate ==
    /\ game.step = "update"
    /\ players[1].idleTime < IdleTimeCap
    /\ \E result \in { Stored(players[1], q, game.heap)
                       : q \in {playerUpdate(Held(players[1], game.heap), ActorTickMs,
                                             DefaultScale)} } :
          /\ players' = <<result.player>>
          /\ game' = HeapAt("collisions", result.heap)
    /\ emitted' = <<>>
    /\ UNCHANGED <<rm, arena, touch>>

\* Physics.resolveCollision: p1.position.x -= separationX, and the impulse
SpawnedCollides ==
    /\ game.step = "collisions"
    /\ \/ /\ players' = players
          /\ game' = HeapAt("boundary", game.heap)
       \/ \E opponent \in Opponents :
             \E result \in { Stored(players[1], q, game.heap)
                             : q \in {Collided(Held(players[1], game.heap), opponent,
                                               BASE_DAMAGE_MULTIPLIER)} } :
                /\ players' = <<result.player>>
                /\ game' = HeapAt("boundary", result.heap)
    /\ emitted' = <<>>
    /\ UNCHANGED <<rm, arena, touch>>

\* The boundary check and Game.onPlayerEliminated: player.eliminate()
SpawnedAtBoundary ==
    /\ game.step = "boundary"
    /\ \E outside \in BOOLEAN :
          players' = <<IF players[1].isAlive /\ outside
                       THEN playerEliminate(players[1]) ELSE players[1]>>
    /\ emitted' = <<>>
    /\ game' = HeapAt("handleInput", game.heap)
    /\ UNCHANGED <<rm, arena, touch>>

\* player.addWin() of the round manager, between two ticks
SpawnedAddWin ==
    /\ game.step = "handleInput"
    /\ players[1].wins < WINS_NEEDED
    /\ players' = <<addWin(players[1])>>
    /\ emitted' = <<>>
    /\ UNCHANGED <<rm, arena, game, touch>>

\* player.setSpawnPosition(spawn.x, spawn.y) of Game.resetForRound
SetSpawnPositionCall ==
    /\ game.step = "handleInput"
    /\ \E point \in SpawnPoints :
          \E result \in {setSpawnPosition(players[1], game.heap, point)} :
             /\ players' = <<result.player>>
             /\ game' = HeapAt("handleInput", result.heap)
    /\ emitted' = <<Ev("setSpawnPosition", 1, 0, "")>>
    /\ UNCHANGED <<rm, arena, touch>>

\* player.reset() of Game.resetForRound
ResetCall ==
    /\ game.step = "handleInput"
    /\ \E result \in {resetOnHeap(players[1], game.heap)} :
          /\ players' = <<result.player>>
          /\ game' = HeapAt("handleInput", result.heap)
    /\ emitted' = <<Ev("reset", 1, 0, "")>>
    /\ UNCHANGED <<rm, arena, touch>>

NextSpawn ==
    \/ SpawnedHandleInput
    \/ SpawnedUpdate
    \/ SpawnedCollides
    \/ SpawnedAtBoundary
    \/ SpawnedAddWin
    \/ SetSpawnPositionCall
    \/ ResetCall

SpecSpawn == InitSpawn /\ [][NextSpawn]_vars

\* --------------------------------------------- Physics.resolveCollision, called
\* Two actors on a line through the arena centre, positions in 64ths of a
\* pixel (every overlap of whole pixels halves exactly), velocities in tenths
\* of a pixel per tick.  The second actor is at one of these distances, in
\* pixels, on either side of the first: coincident, inside, touching, apart.
PairOffsets ==
    {0, 1, PLAYER_RADIUS, 2 * PLAYER_RADIUS - 1, 2 * PLAYER_RADIUS, 2 * PLAYER_RADIUS + 1}
PairVelocities == {-10, 0, 10}
CollidingActor(isAlive, x, velocity, isDashing) ==
    [isAlive |-> isAlive, position |-> SubPixels(x), velocity |-> velocity,
     isDashing |-> isDashing, mass |-> MASS]

\* Physics.resolveCollision(p1, p2, damageMultiplier): the separation, and
\* behind it (the call having passed its early returns) the impulse, which
\* reads the velocities, masses and dashes of the two and not where they are.
resolveCollisionOfPair(ps, damageMultiplier) ==
    CHOOSE result \in
        { IF separated = ps THEN ps
          ELSE LET nx     == IF ps[2].position < ps[1].position THEN -1 ELSE 1
                   pushed == resolveOverlap([ps[1] EXCEPT !.position = AtSpawn],
                                            [ps[2] EXCEPT !.position = Elsewhere],
                                            nx, damageMultiplier)
               IN  <<[separated[1] EXCEPT !.velocity = pushed[1].velocity],
                     [separated[2] EXCEPT !.velocity = pushed[2].velocity]>>
          : separated \in {resolveCollision(ps, 1, 2)} } : TRUE

InitCollision ==
    /\ rm = NewRoundManager
    /\ \E alive1 \in BOOLEAN, alive2 \in BOOLEAN, dashing1 \in BOOLEAN, dashing2 \in BOOLEAN,
          v1 \in PairVelocities, v2 \in PairVelocities, offset \in PairOffsets, side \in {-1, 1} :
          players = <<CollidingActor(alive1, centerX, v1, dashing1),
                      CollidingActor(alive2, centerX + side * offset, v2, dashing2)>>
    /\ arena = NewArena
    /\ game = LoopAt("collisions")
    /\ touch = [startPressed |-> FALSE]
    /\ emitted = <<>>

\* Physics.resolveCollision(p1, p2, damageMultiplier, bounceMultiplier)
ResolveCollisionCall ==
    /\ game.step = "collisions"
    /\ \E damageMultiplier \in DamageMultipliers :
          /\ players' = resolveCollisionOfPair(players, damageMultiplier)
          /\ emitted' = <<Ev("resolveCollision", 1, damageMultiplier, "")>>
    /\ game' = LoopAt("boundary")
    /\ UNCHANGED <<rm, arena, touch>>

NextCollision == ResolveCollisionCall

SpecCollision == InitCollision /\ [][NextCollision]_vars

\* ------------------------------------------------ the fixed-timestep driver
\* Game.gameLoop, frame by frame, around a match in which nobody is knocked
\* out.  No gamepad is connected and the touch start button is not used, so
\* the two start polls of a frame find nothing.  The scaled delta of a frame
\* (currentTime - lastTime, times the time scale of the screen effects) is an
\* input.  game carries the accumulator and, for the account of time, the sum
\* of the scaled deltas and the sum of the steps the ticks were run with.
DriverGame ==
    [roundResetDone |-> FALSE, activeModifier |-> NoModifier,
     gamepadStartPreviousState |-> FALSE, detached |-> <<>>,
     accumulator |-> 0, scaledTotal |-> 0, consumed |-> 0]

\* The catch-up loop entered again although the accumulator only equals the
\* fixed step.
loopContinues_strict(accumulator, fixedDelta) == accumulator > fixedDelta

\* while (this.accumulator >= fixedDelta)
loopContinues(accumulator, fixedDelta) == accumulator >= fixedDelta

\* One turn of the loop: fixedUpdate(fixedDelta); accumulator -= fixedDelta.
catchUpOnce(w, fixedDelta, modifier) ==
    CHOOSE result \in
        { [Emit(ticked, Ev("fixedUpdate", NoPlayer, fixedDelta, ""))
              EXCEPT !.game.accumulator = @ - fixedDelta, !.game.consumed = @ + fixedDelta]
          : ticked \in { fixedUpdate(w, fixedDelta, modifier,
                                     [i \in AliveIdx(w.players) |-> 0], {}) } } : TRUE

RECURSIVE catchUp(_, _, _)
catchUp(w, fixedDelta, modifier) ==
    IF loopContinues(w.game.accumulator, fixedDelta)
    THEN CHOOSE result \in
            { catchUp(next, fixedDelta, modifier)
              : next \in {catchUpOnce(w, fixedDelta, modifier)} } : TRUE
    ELSE w

gameLoop(w, scaledDelta, modifier) ==
    catchUp([Emit(w, Ev("frame", NoPlayer, scaledDelta, ""))
                EXCEPT !.game.accumulator = @ + scaledDelta,
                       !.game.scaledTotal = @ + scaledDelta],
            FIXED_TIMESTEP, modifier)

\* Scaled deltas of a frame: none, a part of a step, one step, more than two.
FrameDeltas == {0, FIXED_TIMESTEP \div 4, FIXED_TIMESTEP, (5 * FIXED_TIMESTEP) \div 2}

InitDriver ==
    /\ rm = NewRoundManager
    /\ players = initializePlayers(DefaultPlayerCount)
    /\ arena = NewArena
    /\ game = DriverGame
    /\ touch = [startPressed |-> FALSE]
    /\ emitted = <<>>

\* requestAnimationFrame calls gameLoop(currentTime)
Frame ==
    /\ \E scaledDelta \in FrameDeltas :
          /\ game.scaledTotal + scaledDelta <= MaxElapsedMs
          /\ \E w \in {gameLoop(World, scaledDelta, "NONE")} : Commit(w)
    /\ UNCHANGED touch

NextDriver ==
    \/ Frame
    \/ KeyStart

SpecDriver == InitDriver /\ [][NextDriver]_vars

\* ------------------------------------------------ keyboard input and the driver
\* The driver with the keyboard state of InputManager: game.keys and
\* game.keyJustPressed are the two Sets of key codes.  An event handler runs
\* between two frames, never within one.  The keys are the dash key and a
\* movement key of the first actor.
DashKey == "ShiftLeft"
MoveKey == "KeyD"
KeyCodes == {DashKey, MoveKey}
InputGame ==
    [roundResetDone |-> FALSE, activeModifier |-> NoModifier,
     gamepadStartPreviousState |-> FALSE, detached |-> <<>>,
     accumulator |-> 0, scaledTotal |-> 0, consumed |-> 0,
     keys |-> {}, keyJustPressed |-> {}]

\* The keydown listener of InputManager
keydown(g, code) ==
    [g EXCEPT !.keyJustPressed = IF code \in g.keys THEN @ ELSE @ \cup {code},
              !.keys = @ \cup {code}]
\* The keyup listener
keyup(g, code) == [g EXCEPT !.keys = @ \ {code}]
\* The blur listener
blur(g) == [g EXCEPT !.keys = {}]
\* InputManager.update: clear just pressed keys
inputUpdate(g) == [g EXCEPT !.keyJustPressed = {}]
\* InputManager.getKeyboardDash(0)
getKeyboardDash(g) == DashKey \in g.keyJustPressed

\* One turn of the catch-up loop; a tick that finds the round being played
\* reads the input of the actor.
catchUpOnceWithInput(w, fixedDelta) ==
    CHOOSE result \in
        { IF isPlaying(ticked.rm)
          THEN Emit(ticked, Ev("getPlayerInput", 1,
                               IF getKeyboardDash(w.game) THEN 1 ELSE 0, ""))
          ELSE ticked
          : ticked \in {catchUpOnce(w, fixedDelta, "NONE")} } : TRUE

RECURSIVE catchUpWithInput(_, _)
catchUpWithInput(w, fixedDelta) ==
    IF loopContinues(w.game.accumulator, fixedDelta)
    THEN CHOOSE result \in
            { catchUpWithInput(next, fixedDelta)
              : next \in {catchUpOnceWithInput(w, fixedDelta)} } : TRUE
    ELSE w

\* Game.gameLoop: input.update(), the accumulator, the catch-up loop.
gameLoopWithInput(w, scaledDelta) ==
    catchUpWithInput([Emit(w, Ev("frame", NoPlayer, scaledDelta, ""))
                        EXCEPT !.game = [inputUpdate(w.game) EXCEPT
                                           !.accumulator = @ + scaledDelta,
                                           !.scaledTotal = @ + scaledDelta]],
                     FIXED_TIMESTEP)

InitInput ==
    /\ rm = NewRoundManager
    /\ players = initializePlayers(DefaultPlayerCount)
    /\ arena = NewArena
    /\ game = InputGame
    /\ touch = [startPressed |-> FALSE]
    /\ emitted = <<>>

\* requestAnimationFrame calls gameLoop(currentTime)
FrameWithInput ==
    /\ \E scaledDelta \in FrameDeltas :
          /\ game.scaledTotal + scaledDelta <= MaxElapsedMs
          /\ \E w \in {gameLoopWithInput(World, scaledDelta)} : Commit(w)
    /\ UNCHANGED touch

\* A keydown event
KeyDown ==
    /\ \E code \in KeyCodes :
          /\ game' = keydown(game, code)
          /\ emitted' = <<Ev("keydown", NoPlayer, 0, code)>>
    /\ UNCHANGED <<rm, players, arena, touch>>

\* A keyup event
KeyUp ==
    /\ \E code \in KeyCodes :
          /\ game' = keyup(game, code)
          /\ emitted' = <<Ev("keyup", NoPlayer, 0, code)>>
    /\ UNCHANGED <<rm, players, arena, touch>>

\* The window loses the focus
Blur ==
    /\ game' = blur(game)
    /\ emitted' = <<Ev("blur", NoPlayer, 0, "")>>
    /\ UNCHANGED <<rm, players, arena, touch>>

NextInput ==
    \/ FrameWithInput
    \/ KeyStart
    \/ KeyDown
    \/ KeyUp
    \/ Blur

SpecInput == InitInput /\ [][NextInput]_vars

\* ------------------------------------------------ slow motion and its timers
\* ScreenEffects.targetTimeScale, in percent, with the timers slowMotion has
\* set and not yet seen fire; game.now is the clock of the timers.  A timer
\* fires as soon as it is due.
NormalTimeScale == 100
\* slowMotion(0.7, 50) of a dash, slowMotion(0.4, 80) of a hard impact,
\* slowMotion(0.15, 200) of an elimination
SlowMotionCalls ==
    {[scale |-> 70, duration |-> 50],
     [scale |-> 40, duration |-> 80],
     [scale |-> 15, duration |-> 200]}
NewScreenEffects ==
    [targetTimeScale |-> NormalTimeScale, timers |-> {}, now |-> 0, requests |-> 0]

\* ScreenEffects.slowMotion(scale, duration); the timer keeps the request it
\* belongs to.
slowMotion(fx, scale, duration) ==
    [fx EXCEPT !.targetTimeScale = scale,
               !.requests = @ + 1,
               !.timers = @ \cup {[request |-> fx.requests + 1, scale |-> scale,
                                   due |-> fx.now + duration,
                                   overlaps |-> fx.timers # {}]}]
\* The callback of a timer
timerFires(fx, timer) ==
    [fx EXCEPT !.targetTimeScale = NormalTimeScale, !.timers = @ \ {timer}]

DueTimers(fx) == {t \in fx.timers : t.due <= fx.now}

InitSlowMotion ==
    /\ rm = NewRoundManager
    /\ players = initializePlayers(DefaultPlayerCount)
    /\ arena = NewArena
    /\ game = NewScreenEffects
    /\ touch = [startPressed |-> FALSE]
    /\ emitted = <<>>

\* A dash, an impact or an elimination asks for slow motion
SlowMotionCall ==
    /\ game.requests < MaxRequests
    /\ DueTimers(game) = {}
    /\ \E call \in SlowMotionCalls :
          /\ game' = slowMotion(game, call.scale, call.duration)
          /\ emitted' = <<Ev("slowMotion", NoPlayer, call.scale, "")>>
    /\ UNCHANGED <<rm, players, arena, touch>>

\* The timer that is due first fires
TimerFires ==
    /\ \E timer \in DueTimers(game) :
          /\ \A other \in DueTimers(game) :
                other.due > timer.due \/ (other.due = timer.due
                                          /\ other.request >= timer.request)
          /\ game' = timerFires(game, timer)
          /\ emitted' = <<Ev("timeout", NoPlayer, timer.request, "")>>
    /\ UNCHANGED <<rm, players, arena, touch>>

\* Time passes while no timer is due
ClockAdvances ==
    /\ DueTimers(game) = {}
    /\ game.now + ClockStepMs <= MaxClockMs
    /\ game' = [game EXCEPT !.now = @ + ClockStepMs]
    /\ emitted' = <<>>
    /\ UNCHANGED <<rm, players, arena, touch>>

NextSlowMotion ==
    \/ SlowMotionCall
    \/ TimerFires
    \/ ClockAdvances

SpecSlowMotion == InitSlowMotion /\ [][NextSlowMotion]_vars

\* ------------------------------------------- the countdown at sixty hertz
\* The round manager as Game.fixedUpdate calls it through a countdown, with
\* the fixed step of the program, 1000 / 60 ms.  A Number of the source is an
\* IEEE-754 double; countdownTimer is kept here as the double it is: the
\* integer count of 2^-48 ms (the last binary place of 1000 / 60), in two
\* limbs, hi * 2^29 + lo with 0 <= lo < 2^29.  game.updates counts the calls
\* of update since the match was started.
Limb == 2^29
\* The double nearest to 1000 / 60: 4691249611844267 * 2^-48.
FixedTimestepAsDouble == [hi |-> 8738133, lo |-> 178956971]
\* An integer number of milliseconds below 2^12 as a double.
ToDouble(ms) == [hi |-> ms * 2^19, lo |-> 0]
DoubleNonPositive(x) == x.hi < 0 \/ (x.hi = 0 /\ x.lo = 0)

\* The value of the last place of a double of 53 significant bits that is
\* at least 2^53 * 2^-48: the least q = 2^k with hi < 2^24 * q.
RECURSIVE LastPlace(_, _)
LastPlace(hi, q) == IF hi < 2^24 * q THEN q ELSE LastPlace(hi, 2 * q)

\* x - y in doubles, for 0 <= x < 2^10 and 0 < y < 2^5: the exact difference,
\* rounded to 53 significant bits, to the nearest and to even on a tie.  A
\* difference below 2^5 (and so every negative one) is exact.
DoubleMinus(x, y) ==
    LET borrow == IF x.lo < y.lo THEN 1 ELSE 0
        hi     == x.hi - y.hi - borrow
        lo     == x.lo - y.lo + borrow * Limb
        q      == LastPlace(hi, 1)
        down   == lo - (lo % q)
        up     == \/ 2 * (lo % q) > q
                  \/ 2 * (lo % q) = q /\ (down \div q) % 2 = 1
        lo1    == IF up THEN down + q ELSE down
    IN  IF hi < 2^24 THEN [hi |-> hi, lo |-> lo]
        ELSE IF lo1 = Limb THEN [hi |-> hi + 1, lo |-> 0]
        ELSE [hi |-> hi, lo |-> lo1]

\* RoundManager.updateCountdown(1000 / 60)
updateCountdownAsDouble(w) ==
    CHOOSE result \in
        { countdownStep(w, timer, DoubleNonPositive(timer), ToDouble(COUNT_STEP))
          : timer \in {DoubleMinus(w.rm.countdownTimer, FixedTimestepAsDouble)} } : TRUE

InitCountdown ==
    /\ rm = NewRoundManager
    /\ players = initializePlayers(DefaultPlayerCount)
    /\ arena = NewArena
    /\ game = [roundResetDone |-> FALSE, activeModifier |-> NoModifier,
               gamepadStartPreviousState |-> FALSE, detached |-> <<>>, updates |-> 0]
    /\ touch = [startPressed |-> FALSE]
    /\ emitted = <<>>

\* keydown Space while the game waits for a start
StartAtSixtyHertz ==
    /\ isWaiting(rm) \/ isMatchOver(rm)
    /\ \E modifier \in Modifiers :
          \E w \in {startNewMatch(World, modifier)} :
             Commit([w EXCEPT !.rm.countdownTimer = ToDouble(@), !.game.updates = 0])
    /\ UNCHANGED touch

\* roundManager.update(1000 / 60, players) in a countdown
UpdateAtSixtyHertz ==
    /\ rm.state = "countdown"
    /\ \E w \in {updateCountdownAsDouble(World)} :
          Commit([w EXCEPT !.game.updates = @ + 1])
    /\ UNCHANGED touch

NextCountdown ==
    \/ StartAtSixtyHertz
    \/ UpdateAtSixtyHertz

SpecCountdown == InitCountdown /\ [][NextCountdown]_vars

\* ------------------------------------------------ the modifiers of a match
\* A match of the default two actors, tick by tick, in which game also keeps
\* the modifier of the round played before the current one
\* (previousModifier): the program keeps no such field, it is the record the
\* rounds are compared by.
InitModifiers ==
    /\ rm = NewRoundManager
    /\ players = initializePlayers(DefaultPlayerCount)
    /\ arena = NewArena
    /\ game = [roundResetDone |-> FALSE, activeModifier |-> NoModifier,
               gamepadStartPreviousState |-> FALSE, detached |-> <<>>,
               previousModifier |-> NoModifier]
    /\ touch = [startPressed |-> FALSE]
    /\ emitted = <<>>

\* keydown Space
StartOfMatch ==
    /\ isWaiting(rm) \/ isMatchOver(rm)
    /\ \E modifier \in Modifiers :
          Commit([startNewMatch(World, modifier) EXCEPT !.game.previousModifier = NoModifier])
    /\ UNCHANGED touch

\* One simulation tick: Game.fixedUpdate(FIXED_TIMESTEP).
TickOfMatch ==
    /\ ~(rm.state = "countdown" /\ rm.currentRound >= MaxRounds)
    /\ \E modifier \in ModifierChoices, dist \in DistChoices :
         LET w1 == update(World, FIXED_TIMESTEP, modifier, dist)
             alive == IF isPlaying(w1.rm) THEN AliveIdx(w1.players) ELSE {}
         IN  \E out \in SUBSET alive :
                \E w \in {fixedUpdate(World, FIXED_TIMESTEP, modifier, dist, out)} :
                    Commit(IF isPlaying(rm) /\ ~isPlaying(w.rm)
                           THEN [w EXCEPT !.game.previousModifier = rm.currentModifier]
                           ELSE w)
    /\ UNCHANGED touch

NextModifiers ==
    \/ StartOfMatch
    \/ TickOfMatch

SpecModifiers == InitModifiers /\ [][NextModifiers]_vars

\* ------------------------------------------ the round manager, call by call
\* The round manager of a match of the default two actors as Game calls it:
\* startNewMatch on a start signal, update once per tick, with a step finer
\* than a second, and an actor eliminated by the boundary check between two
\* updates.
\* roundManager.update(deltaTime, players)
RoundUpdate ==
    /\ rm.state \in {"countdown", "playing", "roundEnd", "matchEnd"}
    /\ ~(rm.state = "countdown" /\ rm.currentRound >= MaxRounds)
    /\ \E modifier \in Modifiers, dist \in [AliveIdx(players) -> Dists] :
          \E w \in {update(World, RoundStepMs, modifier, dist)} : Commit(w)
    /\ UNCHANGED touch

\* Physics.checkArenaBoundary + Game.onPlayerEliminated at the end of a tick
ActorEliminated ==
    /\ isPlaying(rm)
    /\ \E i \in AliveIdx(players) : players' = [players EXCEPT ![i] = eliminate(@)]
    /\ emitted' = <<>>
    /\ UNCHANGED <<rm, arena, game, touch>>

NextRounds ==
    \/ KeyStart
    \/ RoundUpdate
    \/ ActorEliminated

SpecRounds == Init /\ [][NextRounds]_vars

\* The round manager with its two entry points into the countdown called
\* while it is counting down.
\* roundManager.startCountdown()
StartCountdownCall ==
    /\ rm.state = "countdown"
    /\ \E modifier \in Modifiers : Commit(startCountdown(World, modifier))
    /\ UNCHANGED touch

\* roundManager.startMatch()
StartMatchCall ==
    /\ rm.state = "countdown"
    /\ \E modifier \in Modifiers : Commit(startMatch(World, modifier))
    /\ UNCHANGED touch

NextReentry == NextRounds \/ StartCountdownCall \/ StartMatchCall

SpecReentry == Init /\ [][NextReentry]_vars

\* ------------------------------------------------- vocabulary of the claims
\* The reasons of the round-end notifications in a list of notifications.
RoundEndReasons(ev) == {ev[k].text : k \in {n \in 1..Len(ev) : ev[n].type = "roundEnd"}}
CountEvents(ev, type) == Cardinality({k \in 1..Len(ev) : ev[k].type = type})
\* The actors onMatchEnd was fired with.
MatchEndWinners(ev) == {ev[k].player : k \in {n \in 1..Len(ev) : ev[n].type = "matchEnd"}}
\* A start signal handled by the game: Space, a gamepad poll, a touch poll.
StartSignal == KeyStart \/ CheckGamepadStart \/ CheckTouchStart
InRound == rm.state \in {"countdown", "playing", "roundEnd"}
\* Simulated time the machine has spent in roundEnd.
TimeInRoundEnd == ROUND_END_DELAY - rm.roundEndTimer
SameWinsExcept(k) ==
    /\ Len(players') = Len(players)
    /\ \A j \in Indices(players) : j # k => players'[j].wins = players[j].wins

\* C1: RoundManager.state changes only waiting -> countdown (start signal),
\* countdown -> playing (a tick, the countdown reaching 0), playing -> roundEnd
\* (a tick, reason knockout or timeout), roundEnd -> countdown or matchEnd (a
\* tick, once the round-end delay has passed), matchEnd -> countdown (restart
\* signal).
C1_Transitions ==
    [][ rm'.state # rm.state =>
          \/ /\ rm.state = "waiting" /\ rm'.state = "countdown"
             /\ StartSignal
          \/ /\ rm.state = "countdown" /\ rm'.state = "playing"
             /\ Tick
             /\ rm.countdownValue = 1 /\ rm'.countdownValue = 0
          \/ /\ rm.state = "playing" /\ rm'.state = "roundEnd"
             /\ Tick
             /\ RoundEndReasons(emitted') # {}
             /\ RoundEndReasons(emitted') \subseteq {"knockout", "timeout"}
          \/ /\ rm.state = "roundEnd" /\ rm'.state \in {"countdown", "matchEnd"}
             /\ Tick
             /\ TimeInRoundEnd + FIXED_TIMESTEP >= ROUND_END_DELAY
          \/ /\ rm.state = "matchEnd" /\ rm'.state = "countdown"
             /\ StartSignal
      ]_vars

\* C1 witness: a match that went through every state up to matchEnd.
C1_Witness == rm.state = "matchEnd" /\ rm.winner # NoPlayer /\ rm.currentRound = WINS_NEEDED

\* C2: a playing round never has a roundTime of FINAL_COUNTDOWN_START +
\* FINAL_COUNTDOWN_DURATION or more, and a tick that starts with two or more
\* actors alive leaves playing only for roundEnd, by one round-end
\* notification with reason timeout.
C2_TerminationBound ==
    [][ /\ isPlaying(rm') => rm'.roundTime < FINAL_COUNTDOWN_START + FINAL_COUNTDOWN_DURATION
        /\ (isPlaying(rm) /\ Cardinality(AliveIdx(players)) >= 2 /\ ~isPlaying(rm')) =>
              /\ rm'.state = "roundEnd"
              /\ CountEvents(emitted', "roundEnd") = 1
              /\ RoundEndReasons(emitted') = {"timeout"}
      ]_vars

\* C2 witness: a round of three actors, all alive through the final countdown,
\* ended by the forced round end.
C2_Witness ==
    /\ rm.state = "roundEnd"
    /\ RoundEndReasons(emitted) = {"timeout"}
    /\ Len(players) >= 3
    /\ rm.roundWinner # NoPlayer
    /\ Cardinality(AliveIdx(players)) = 1

\* C3 (as claimed): no tick finishes with state = playing and fewer than two
\* actors alive.
C3_NoPlayingBelowTwoAlive ==
    isPlaying(rm) => Cardinality(AliveIdx(players)) >= 2

\* C4 (as claimed): when eliminations have left exactly one actor alive, the
\* round ends with that actor as roundWinner, reason knockout, its wins one
\* higher and no other actor's wins changed.
C4_LastStandingKnockout ==
    [][ (isPlaying(rm) /\ Cardinality(AliveIdx(players)) = 1 /\ rm' # rm) =>
          LET k == FirstOf(AliveIdx(players))
          IN  /\ rm'.state = "roundEnd"
              /\ rm'.roundWinner = k
              /\ RoundEndReasons(emitted') = {"knockout"}
              /\ players'[k].wins = players[k].wins + 1
              /\ SameWinsExcept(k)
      ]_vars

\* C5 (as claimed): when every living actor has been eliminated in one tick,
\* the round ends as a draw: no roundWinner, reason knockout, no wins changed.
C5_DrawKnockout ==
    [][ (isPlaying(rm) /\ AliveIdx(players) = {} /\ rm' # rm) =>
          /\ rm'.state = "roundEnd"
          /\ rm'.roundWinner = NoPlayer
          /\ RoundEndReasons(emitted') = {"knockout"}
          /\ SameWinsExcept(NoPlayer)
      ]_vars

\* C6 (as claimed): when the final countdown elapses with two or more actors
\* alive, the actor kept is a living actor whose position is nearest the
\* arena centre at that moment; it is the only actor alive afterwards, it is
\* roundWinner, its wins are one higher and no other actor's wins changed.
C6_ForcedEndKeepsNearest ==
    [][ (isPlaying(rm) /\ rm'.state = "roundEnd" /\ Cardinality(AliveIdx(players)) >= 2) =>
          \E k \in AliveIdx(players) :
              /\ \A j \in AliveIdx(players) :
                    distanceFromCenter(players[k].position) <= distanceFromCenter(players[j].position)
              /\ AliveIdx(players') = {k}
              /\ rm'.roundWinner = k
              /\ players'[k].wins = players[k].wins + 1
              /\ SameWinsExcept(k)
      ]_vars

\* C7: the tick that completes ROUND_END_DELAY in roundEnd enters matchEnd if
\* and only if some actor has WINS_NEEDED wins, with winner set to such an
\* actor and onMatchEnd fired once, for that actor; otherwise it enters
\* countdown and fires no onMatchEnd.  Earlier ticks stay in roundEnd, and a
\* tick in matchEnd fires no onMatchEnd.
C7_MatchEndIffWinner ==
    [][ /\ (rm.state = "roundEnd" /\ rm' # rm) =>
              IF TimeInRoundEnd + FIXED_TIMESTEP < ROUND_END_DELAY
              THEN rm'.state = "roundEnd" /\ CountEvents(emitted', "matchEnd") = 0
              ELSE IF \E i \in Indices(players) : players[i].wins >= WINS_NEEDED
                   THEN /\ rm'.state = "matchEnd"
                        /\ rm'.winner \in Indices(players)
                        /\ players[rm'.winner].wins >= WINS_NEEDED
                        /\ CountEvents(emitted', "matchEnd") = 1
                        /\ MatchEndWinners(emitted') = {rm'.winner}
                   ELSE /\ rm'.state = "countdown"
                        /\ CountEvents(emitted', "matchEnd") = 0
        /\ (rm.state # "roundEnd" /\ emitted' # emitted) => CountEvents(emitted', "matchEnd") = 0
      ]_vars

\* C7 witness: the state the match-ending tick leaves.
C7_Witness ==
    /\ rm.state = "matchEnd"
    /\ CountEvents(emitted, "matchEnd") = 1
    /\ rm.winner # NoPlayer
    /\ players[rm.winner].wins = WINS_NEEDED

\* C8: a step taken in matchEnd either stays in matchEnd with currentRound,
\* winner and all wins unchanged, or is a restart signal that yields a fresh
\* countdown: currentRound 0, no winner, all wins 0, all actors alive at
\* spawn, the arena reset.
C8_MatchEndTerminal ==
    [][ isMatchOver(rm) =>
          \/ /\ rm'.state = "matchEnd"
             /\ rm'.currentRound = rm.currentRound
             /\ rm'.winner = rm.winner
             /\ SameWinsExcept(NoPlayer)
          \/ /\ StartSignal
             /\ rm'.state = "countdown"
             /\ rm'.currentRound = 0
             /\ rm'.winner = NoPlayer
             /\ rm'.countdownValue = COUNTDOWN_DURATION
             /\ \A i \in Indices(players') :
                   /\ players'[i].wins = 0
                   /\ players'[i].isAlive
                   /\ players'[i].position = AtSpawn
             /\ Len(players') = Len(players)
             /\ arena' = NewArena
      ]_vars

\* C8 witness: matchEnd after a tick was taken in it (the notifications of
\* the match-ending tick are gone).
C8_Witness == isMatchOver(rm) /\ emitted = <<>> /\ rm.winner # NoPlayer

C10_RoundCounter ==
    [][ /\ rm'.currentRound > rm.currentRound =>
              rm.state = "countdown" /\ rm'.state = "playing"
        /\ (rm.state = "countdown" /\ rm'.state = "playing") =>
              rm'.currentRound = rm.currentRound + 1
        /\ ((isWaiting(rm) \/ isMatchOver(rm)) /\ rm'.state = "countdown") =>
              rm'.currentRound = 0
      ]_vars

\* C10 witness: the second round of a match being played.
C10_Witness == isPlaying(rm) /\ rm.currentRound = 2

\* C11: in every reachable state winner is non-null only while state =
\* matchEnd, and it then refers to an actor with wins >= WINS_NEEDED.
C11_WinnerOnlyInMatchEnd ==
    rm.winner # NoPlayer =>
        /\ isMatchOver(rm)
        /\ winnerObject(rm, players, game).wins >= WINS_NEEDED

\* C11 witness: matchEnd with a winner, after the player-count buttons have
\* replaced the actors.
C11_Witness ==
    /\ isMatchOver(rm)
    /\ rm.winner # NoPlayer
    /\ game.detached # <<>>
    /\ \A i \in Indices(players) : players[i].wins = 0

\* Positions and radii, in subpixels, the boundary tests are compared at: a
\* grid over the canvas, and the place of the actor.
GridXs == {SubPixels(x) : x \in {0, 60, 340, 500, 620, 660}}
GridYs == {SubPixels(y) : y \in {20, 60, 240, 350, 480}}
GridRadii == {0, SubPixels(PLAYER_RADIUS)}
TestPoints ==
    {<<x, y>> : x \in GridXs, y \in GridYs}
        \cup {<<players[i].position.x, players[i].position.y>> : i \in Indices(players)}

\* dist + radius > limit and dist - radius > limit, for dist the distance of
\* (x, y) from the centre of the arena.
ReachesBeyond(x, y, radius, limit) ==
    LET dx == x - SubPixels(centerX)
        dy == y - SubPixels(centerY)
    IN  limit - radius < 0 \/ dx * dx + dy * dy > (limit - radius) * (limit - radius)
LiesBeyond(x, y, radius, limit) ==
    LET dx == x - SubPixels(centerX)
        dy == y - SubPixels(centerY)
    IN  dx * dx + dy * dy > (limit + radius) * (limit + radius)
\* The disc lies wholly on the outer side of the line of an edge.
PastAnEdge(a, x, y, radius) ==
    LET b == bounds(a)
    IN  \/ x + radius < b.left \/ x - radius > b.right
        \/ y + radius < b.top \/ y - radius > b.bottom
ForcesApplied(ev) == UNION {ev[k].text : k \in {n \in 1..Len(ev) : ev[n].type = "forces"}}
BoundaryVerdicts(ev) == {ev[k].text : k \in {n \in 1..Len(ev) : ev[n].type = "boundary"}}

\* The disc of the actor has a point in the (closed) rectangle of the arena.
DiscMeetsArena(a, x, y, radius) ==
    LET b  == bounds(a)
        dx == Max(0, Max(b.left - x, x - b.right))
        dy == Max(0, Max(b.top - y, y - b.bottom))
    IN  dx * dx + dy * dy <= radius * radius

\* The disc of the actor is not contained in the rectangle of the arena.
DiscLeavesArena(a, x, y, radius) ==
    LET b == bounds(a)
    IN  ~(b.left <= x - radius /\ x + radius <= b.right
          /\ b.top <= y - radius /\ y + radius <= b.bottom)

\* C12: elimination is strict.  With the rectangular arena, for every
\* position and radius: a disc that overlaps the boundary (it has a point in
\* the arena and is not contained in it) is out of bounds and not eliminated;
\* a disc fully outside the left edge (x + radius < bounds.left) is
\* eliminated; a disc partially over the left edge (x - radius < bounds.left
\* <= x + radius, the disc reaching the arena) is out of bounds and not
\* eliminated.
C12_EliminationStrict ==
    \A pt \in TestPoints, radius \in GridRadii :
        LET x == pt[1]
            y == pt[2]
        IN  ~arena.centrifugeMode =>
              /\ (DiscMeetsArena(arena, x, y, radius) /\ DiscLeavesArena(arena, x, y, radius)) =>
                    (isOutOfBounds(arena, x, y, radius) /\ ~isEliminated(arena, x, y, radius))
              /\ x + radius < bounds(arena).left => isEliminated(arena, x, y, radius)
              /\ (/\ x - radius < bounds(arena).left
                  /\ bounds(arena).left <= x + radius
                  /\ DiscMeetsArena(arena, x, y, radius)) =>
                    (isOutOfBounds(arena, x, y, radius) /\ ~isEliminated(arena, x, y, radius))

\* C12 witness: after the arena has shrunk, the boundary check has kept a
\* living actor that is partially over the left edge.
C12_Witness ==
    /\ ~arena.centrifugeMode
    /\ arena.isShrinking
    /\ players[1].isAlive
    /\ players[1].position.x - SubPixels(PLAYER_RADIUS) < bounds(arena).left
    /\ bounds(arena).left <= players[1].position.x + SubPixels(PLAYER_RADIUS)
    /\ players[1].position.y = SubPixels(centerY)
    /\ \E k \in 1..Len(emitted) : emitted[k].type = "boundary" /\ emitted[k].text = "kept"

\* C13: shrink bound.  After any sequence of Arena.update, setScale,
\* setShrinkSpeed and setAliveCount calls, at every roundTime and with every
\* modifier, width and height are > 0 and at least minSizePercent *
\* arenaScale * the original extent.
C13_ShrinkBound ==
    /\ arena.width > 0
    /\ arena.height > 0
    /\ arena.width * 100 * 100 >= MinSizePercent * arena.arenaScale * SubPixels(originalWidth)
    /\ arena.height * 100 * 100 >= MinSizePercent * arena.arenaScale * SubPixels(originalHeight)

\* C13 witness: the scaled-down arena in sudden death, shrunk to its floor.
C13_Witness ==
    /\ arena.arenaScale < DefaultScale
    /\ arena.suddenDeathActive
    /\ arena.width * 100 * 100 = MinSizePercent * arena.arenaScale * SubPixels(originalWidth)
    /\ arena.height * 100 * 100 = MinSizePercent * arena.arenaScale * SubPixels(originalHeight)

\* C14: suddenDeathActive becomes true only by a setAliveCount call that
\* reports two or fewer actors alive when the arena's roundTime is at least
\* suddenDeathStartTime; once true it stays true whatever alive counts are
\* reported, and only Arena.reset() clears it.
C14_SuddenDeathLatch ==
    [][ /\ (~arena.suddenDeathActive /\ arena'.suddenDeathActive) =>
              /\ arena.roundTime >= SuddenDeathStartTime
              /\ \E k \in 1..Len(emitted') :
                    emitted'[k].type = "aliveCount" /\ emitted'[k].num <= 2
        /\ (arena.suddenDeathActive /\ ~arena'.suddenDeathActive) =>
              /\ arena' = arenaReset(arena)
              /\ \A k \in 1..Len(emitted') : emitted'[k].type # "aliveCount"
      ]_vars

\* C14 witness: sudden death still on after more than two actors have been
\* reported alive.
C14_Witness ==
    /\ arena.suddenDeathActive
    /\ \E k \in 1..Len(emitted) : emitted[k].type = "aliveCount" /\ emitted[k].num > 2

\* C16: the two boundary topologies are mutually exclusive.  While
\* centrifugeMode is true, isOutOfBounds and isEliminated are the circular
\* tests (distance from the centre against centrifugeRadius), an actor is
\* eliminated by the boundary check only when it lies beyond the circle, and
\* the sudden-death force is applied to no actor; while centrifugeMode is
\* false they are the rectangular tests, an actor is eliminated only when it
\* lies past an edge, and no centrifuge force is applied.
C16_TopologiesExclusive ==
    /\ \A pt \in TestPoints, radius \in GridRadii :
          LET x == pt[1]
              y == pt[2]
          IN  IF arena.centrifugeMode
              THEN /\ isOutOfBounds(arena, x, y, radius)
                        = ReachesBeyond(x, y, radius, arena.centrifugeRadius)
                   /\ isEliminated(arena, x, y, radius)
                        = LiesBeyond(x, y, radius, arena.centrifugeRadius)
              ELSE /\ isOutOfBounds(arena, x, y, radius) = DiscLeavesArena(arena, x, y, radius)
                   /\ isEliminated(arena, x, y, radius) = PastAnEdge(arena, x, y, radius)
    /\ LET x == players[1].position.x
           y == players[1].position.y
       IN  IF arena.centrifugeMode
           THEN /\ "suddenDeath" \notin ForcesApplied(emitted)
                /\ "eliminated" \in BoundaryVerdicts(emitted) =>
                      LiesBeyond(x, y, SubPixels(PLAYER_RADIUS), arena.centrifugeRadius)
                /\ "kept" \in BoundaryVerdicts(emitted) =>
                      (~players[1].isAlive
                          \/ ~LiesBeyond(x, y, SubPixels(PLAYER_RADIUS), arena.centrifugeRadius))
           ELSE /\ "centrifuge" \notin ForcesApplied(emitted)
                /\ "eliminated" \in BoundaryVerdicts(emitted) =>
                      PastAnEdge(arena, x, y, SubPixels(PLAYER_RADIUS))
                /\ "kept" \in BoundaryVerdicts(emitted) =>
                      (~players[1].isAlive \/ ~PastAnEdge(arena, x, y, SubPixels(PLAYER_RADIUS)))

\* C16 witness: in centrifuge mode with sudden death on, the forces have been
\* applied to a living actor that is inside the rectangle and beyond the
\* circle: the centrifuge force only.
C16_Witness ==
    /\ arena.centrifugeMode
    /\ arena.suddenDeathActive
    /\ players[1].isAlive
    /\ ForcesApplied(emitted) = {"centrifuge"}
    /\ ~PastAnEdge(arena, players[1].position.x, players[1].position.y, SubPixels(PLAYER_RADIUS))
    /\ LiesBeyond(players[1].position.x, players[1].position.y, SubPixels(PLAYER_RADIUS),
                  arena.centrifugeRadius)

\* The bound on the rounds of the model is used up.
RoundsUsedUp == rm.state = "countdown" /\ rm.currentRound >= MaxRounds

\* C15: centrifuge mode is activated by the round manager: in the course of
\* play (here: unless the match runs into the bound on its rounds) the round
\* manager fires the centrifuge-activation notification,
\* Arena.activateCentrifuge runs and centrifugeMode becomes true.
C15_CentrifugeActivated == <>(arena.centrifugeMode \/ RoundsUsedUp)

\* The request the latest handleInput was called with, and what it returned.
DashRequested(ev) == Len(ev) = 1 /\ ev[1].type = "dashRequest"
StartDashCalled(ev) == Len(ev) = 1 /\ ev[1].type = "startDash"
\* The fields of an actor the game freezes at its death.
FrozenFields(p) ==
    <<p.position, p.velocity, p.isDashing, p.dashTimeRemaining, p.dashCooldown,
      p.idleTime, p.isIdle>>
\* The fields of an actor a dash writes.
DashFields(p) ==
    <<p.isDashing, p.dashTimeRemaining, p.dashCooldown, p.velocity, p.lastMoveDirection>>

\* C17: startDash called while the cooldown is above zero leaves the actor as
\* it is (a dash begins only when canDash() holds).
C17_StartDashGuarded ==
    [][StartDashCalled(emitted') /\ players[1].dashCooldown > 0
          => players'[1] = players[1]]_vars

\* C18: handleInput called with a dash request and a zero movement vector on
\* a living actor that can dash starts no dash, returns dashStarted = false
\* and leaves isDashing, dashTimeRemaining, dashCooldown, velocity and
\* lastMoveDirection as they were.
C18_ZeroMovementDashIgnored ==
    [][/\ DashRequested(emitted')
       /\ emitted'[1].num = 0
       /\ players[1].isAlive
       /\ canDash(players[1])
       => /\ emitted'[1].text # "dashStarted"
          /\ DashFields(players'[1]) = DashFields(players[1])
          /\ players'[1] = players[1]]_vars

\* A dash request without movement has just been handled for a moving actor
\* that has not dashed since its reset.
C18_Witness ==
    /\ game.step = "update"
    /\ DashRequested(emitted)
    /\ emitted[1].num = 0
    /\ emitted[1].text = ""
    /\ players[1].isAlive
    /\ canDash(players[1])
    /\ players[1].position = AtSpawn
    /\ players[1].velocity # 0

\* C19: a dead actor has velocity zero, and no call of a tick (input, update,
\* forces, collisions, boundary check) changes its position, velocity, dash
\* state or idle state; only reset() does.
C19_DeadActorsFrozen ==
    /\ [](\A i \in Indices(players) : ~players[i].isAlive => players[i].velocity = 0)
    /\ [][\A i \in Indices(players) :
            ~players[i].isAlive
                => \/ FrozenFields(players'[i]) = FrozenFields(players[i])
                   \/ players'[i] = playerReset(players[i])]_vars

\* An actor that died in its dash has been through the input, the update, the
\* forces and the collisions of a later tick.
C19_Witness ==
    /\ game.step = "boundary"
    /\ ~players[1].isAlive
    /\ players[1].isDashing
    /\ players[1].position # AtSpawn

\* C20: an actor that is dashing has dash time left, in every state and so at
\* the end of every tick: the dash ends in the call that brings
\* dashTimeRemaining to zero or below.
C20_DashingHasTimeLeft ==
    \A i \in Indices(players) : players[i].isDashing => players[i].dashTimeRemaining > 0

\* A tick has ended in which the dash of a living actor ran out.
C20_Witness ==
    /\ game.step = "handleInput"
    /\ players[1].isAlive
    /\ ~players[1].isDashing
    /\ players[1].dashTimeRemaining <= 0
    /\ players[1].dashCooldown = DASH_COOLDOWN - 2 * ActorTickMs

\* The frame the latest step ran, if it ran one: its scaled delta and the
\* number of ticks it ran.
FrameRun(ev) == Len(ev) >= 1 /\ ev[1].type = "frame"
TicksRun(ev) == CountEvents(ev, "fixedUpdate")
TickSteps(ev) == {ev[k].num : k \in {n \in 1..Len(ev) : ev[n].type = "fixedUpdate"}}

\* C21: for any sequence of non-negative scaled frame deltas, each frame runs
\* exactly floor((accumulator + scaledDelta) / FIXED_TIMESTEP) ticks, each
\* with one fixed step; after every frame 0 <= accumulator < FIXED_TIMESTEP,
\* and the steps consumed plus the accumulator equal the sum of all scaled
\* deltas.
C21_FixedTimestepDriver ==
    [][ FrameRun(emitted') =>
          /\ TicksRun(emitted') = (game.accumulator + emitted'[1].num) \div FIXED_TIMESTEP
          /\ TickSteps(emitted') \subseteq {FIXED_TIMESTEP}
          /\ game'.consumed = game.consumed + TicksRun(emitted') * FIXED_TIMESTEP
          /\ game'.scaledTotal = game.scaledTotal + emitted'[1].num
          /\ 0 <= game'.accumulator
          /\ game'.accumulator < FIXED_TIMESTEP
          /\ game'.consumed + game'.accumulator = game'.scaledTotal
      ]_vars

\* A frame of a round under way has caught up by three ticks: its delta of
\* two steps and a half met an accumulator of three quarters of a step.
C21_Witness ==
    /\ FrameRun(emitted)
    /\ TicksRun(emitted) = 3
    /\ isPlaying(rm)
    /\ game.accumulator = FIXED_TIMESTEP \div 4

\* The values onCountdownTick was fired with by the latest call.
CountdownTicks(ev) == {ev[k].num : k \in {n \in 1..Len(ev) : ev[n].type = "countdownTick"}}
\* Simulated time since the countdown began, in sixtieths of a millisecond:
\* every update adds 1000 / 60 ms.
SimulatedSixtieths(g) == g.updates * 1000

\* C22: the countdown ticks down from COUNTDOWN_DURATION in steps of 1000 ms
\* of simulated time: onCountdownTick is fired with COUNTDOWN_DURATION at its
\* start and then, once per whole second, with the next lower value, down to
\* 0, each value once; the round manager enters playing (roundTime 0, the
\* escalation flags cleared) in the call that fires 0, that is, after
\* COUNTDOWN_DURATION * 1000 ms.
C22_CountdownSteps ==
    [][ IF rm'.state = "countdown" /\ game'.updates = 0
        THEN /\ CountEvents(emitted', "countdownTick") = 1
             /\ CountdownTicks(emitted') = {COUNTDOWN_DURATION}
        ELSE LET simulated == SimulatedSixtieths(game')
                 wholeSecond == simulated % (COUNT_STEP * UpdatesPerSecond) = 0
                 seconds == simulated \div (COUNT_STEP * UpdatesPerSecond)
             IN  /\ CountEvents(emitted', "countdownTick") = IF wholeSecond THEN 1 ELSE 0
                 /\ wholeSecond => CountdownTicks(emitted') = {COUNTDOWN_DURATION - seconds}
                 /\ isPlaying(rm') <=> 0 \in CountdownTicks(emitted')
                 /\ isPlaying(rm') <=> seconds = COUNTDOWN_DURATION /\ wholeSecond
                 /\ isPlaying(rm') =>
                       /\ rm'.roundTime = 0
                       /\ ~rm'.instabilityActive
                       /\ ~rm'.finalCountdownActive
      ]_vars

\* C23: the first round of every match, a match restarted from matchEnd
\* included, is played with no modifier (Standard): the countdown before it
\* and the round itself have currentModifier = NONE, and the round is played
\* with NONE as the active modifier and the arena at its default scale and
\* shrink speed.  A modifier is drawn only for the rounds after the first.
C23_FirstRoundStandard ==
    /\ []((rm.state = "countdown" /\ rm.currentRound = 0) => rm.currentModifier = "NONE")
    /\ []((rm.state \in {"playing", "roundEnd"} /\ rm.currentRound = 1)
             => rm.currentModifier = "NONE")
    /\ []((isPlaying(rm) /\ rm.currentRound = 1)
             => /\ game.activeModifier = "NONE"
                /\ arena.arenaScale = DefaultScale
                /\ arena.shrinkSpeedMultiplier = DefaultScale)
    /\ [][((isWaiting(rm) \/ isMatchOver(rm)) /\ rm'.state = "countdown")
             => rm'.currentRound = 0 /\ rm'.currentModifier = "NONE"]_vars
    /\ [][(rm'.currentModifier # rm.currentModifier /\ rm'.currentModifier # "NONE")
             => rm.state = "roundEnd" /\ rm'.state = "countdown" /\ rm.currentRound >= 1]_vars

\* The first round of a match of three actors is under way, played Standard
\* although the start signal drew some modifier.
C23_Witness ==
    /\ isPlaying(rm)
    /\ rm.currentRound = 1
    /\ rm.roundTime > 0
    /\ game.activeModifier = "NONE"
    /\ Len(players) = MaxPlayers

RemainingSeconds(r) == CeilSeconds(r.finalCountdownTime)

\* C25: notifications are fired once per transition, not on every tick: in
\* every step, onRoundStart is fired once if the step goes from countdown to
\* playing and not otherwise, onEscalation once if it starts the instability,
\* onRoundEnd once if it goes from playing to roundEnd, onMatchEnd once if it
\* enters matchEnd, and onFinalCountdown once if it changes the remaining
\* seconds of the final countdown (or starts it) and not otherwise.
C25_NotificationsOncePerTransition ==
    [][ /\ CountEvents(emitted', "roundStart")
             = IF rm.state = "countdown" /\ isPlaying(rm') THEN 1 ELSE 0
        /\ CountEvents(emitted', "escalation")
             = IF ~rm.instabilityActive /\ rm'.instabilityActive THEN 1 ELSE 0
        /\ CountEvents(emitted', "roundEnd")
             = IF isPlaying(rm) /\ rm'.state = "roundEnd" THEN 1 ELSE 0
        /\ CountEvents(emitted', "matchEnd")
             = IF ~isMatchOver(rm) /\ isMatchOver(rm') THEN 1 ELSE 0
        /\ CountEvents(emitted', "finalCountdown")
             = IF /\ rm'.finalCountdownActive
                  /\ \/ ~rm.finalCountdownActive
                     \/ RemainingSeconds(rm') # RemainingSeconds(rm)
               THEN 1 ELSE 0
      ]_vars

\* The multiplier the latest update was called with.
UpdateCalled(ev) == Len(ev) = 1 /\ ev[1].type = "update"
\* base * multiplier held to [0.85, 0.995], in thousandths.
HeldToRange(product) ==
    IF product < MinFriction THEN MinFriction
    ELSE IF product > MaxFriction THEN MaxFriction ELSE product

\* C26: friction clamp.  For every frictionMultiplier Player.update is called
\* with (0, negative and very large values included), dashing or not, the
\* velocity of a living actor is multiplied in that call by a factor within
\* [0.85, 0.995]: by base * frictionMultiplier held to that range.
C26_FrictionClamp ==
    [][ (UpdateCalled(emitted') /\ players[1].isAlive) =>
          LET p      == players[1]
              base   == IF p.isDashing THEN DashFriction ELSE FRICTION
              factor == HeldToRange(Scaled(base, emitted'[1].num * 10))
          IN  /\ MinFriction <= clampedFriction(p, emitted'[1].num)
              /\ clampedFriction(p, emitted'[1].num) <= MaxFriction
              /\ MinFriction <= factor
              /\ factor <= MaxFriction
              /\ players'[1].velocity = limitMagnitude(Scaled(p.velocity, factor), maxSpeed(p))
      ]_vars

\* A dashing actor at its dash speed has been updated with a multiplier of 0:
\* it keeps 0.85 of its velocity.
C26_Witness ==
    /\ UpdateCalled(emitted)
    /\ emitted[1].num = 0
    /\ players[1].isAlive
    /\ players[1].isDashing
    /\ players[1].velocity = Scaled(Tenths(MAX_SPEED * 100) * DASH_SPEED_MULTIPLIER, MinFriction)

\* C29: SLIPPERY lowers friction.  When a living actor that is not dashing is
\* updated with the friction of the SLIPPERY modifier, the factor its velocity
\* is multiplied by is at least the factor of a round without modifier, and
\* the actor is left at least as fast as that round would leave it.
C29_SlipperyDeceleratesLess ==
    [][ (/\ UpdateCalled(emitted')
         /\ emitted'[1].num = modifierEffects("SLIPPERY").frictionMod
         /\ players[1].isAlive
         /\ ~players[1].isDashing) =>
          LET standard == modifierEffects(NoModifier).frictionMod
          IN  /\ clampedFriction(players[1], emitted'[1].num)
                    >= clampedFriction(players[1], standard)
              /\ Abs(players'[1].velocity)
                    >= Abs(playerUpdate(players[1], ActorTickMs, standard).velocity)
      ]_vars

ResolveCalled(ev) == Len(ev) = 1 /\ ev[1].type = "resolveCollision"

\* C27: resolveCollision separates.  Whenever resolveCollision is called on
\* two living actors closer than radius1 + radius2, the call leaves them at
\* the distance radius1 + radius2, each moved by half the overlap in opposite
\* directions; if their velocities along the normal are equal, the call
\* leaves both velocities as they were.
C27_ResolveCollisionSeparates ==
    [][ (/\ ResolveCalled(emitted')
         /\ players[1].isAlive
         /\ players[2].isAlive
         /\ Abs(players[2].position - players[1].position) < SubPixels(PLAYER_RADIUS + PLAYER_RADIUS)) =>
          LET minDistance == SubPixels(PLAYER_RADIUS + PLAYER_RADIUS)
              overlap     == minDistance - Abs(players[2].position - players[1].position)
              moved1      == players'[1].position - players[1].position
              moved2      == players'[2].position - players[2].position
          IN  /\ Abs(players'[2].position - players'[1].position) = minDistance
              /\ 2 * Abs(moved1) = overlap
              /\ moved2 = -moved1
              /\ players[1].velocity = players[2].velocity =>
                    /\ players'[1].velocity = players[1].velocity
                    /\ players'[2].velocity = players[2].velocity
      ]_vars

\* C28: re-entering the countdown is idempotent.  startCountdown or startMatch
\* called while the state is countdown, wherever the countdown stands, leaves
\* the round manager as it was (countdownValue, countdownTimer and
\* currentModifier among its fields) and makes no notification.
C28_ReentryIdempotent ==
    [][ (StartCountdownCall \/ StartMatchCall) =>
          /\ rm'.countdownValue = rm.countdownValue
          /\ rm'.countdownTimer = rm.countdownTimer
          /\ rm'.currentModifier = rm.currentModifier
          /\ rm' = rm
          /\ emitted' = <<>>
      ]_vars

\* C30: the damage multiplier ramps.  While a round is played the multiplier
\* is within [BASE_DAMAGE_MULTIPLIER, MAX_DAMAGE_MULTIPLIER], is the base
\* while roundTime is below DAMAGE_RAMP_START and the maximum from
\* DAMAGE_RAMP_START + DAMAGE_RAMP_DURATION on; no update of a round being
\* played lowers it; and throughout a countdown, from its start, it is the base.
C30_DamageMultiplierRamp ==
    /\ [](isPlaying(rm) =>
            /\ BASE_DAMAGE_MULTIPLIER <= rm.damageMultiplier
            /\ rm.damageMultiplier <= MAX_DAMAGE_MULTIPLIER
            /\ rm.roundTime < DAMAGE_RAMP_START => rm.damageMultiplier = BASE_DAMAGE_MULTIPLIER
            /\ rm.roundTime >= DAMAGE_RAMP_START + DAMAGE_RAMP_DURATION
                  => rm.damageMultiplier = MAX_DAMAGE_MULTIPLIER)
    /\ [][(isPlaying(rm) /\ isPlaying(rm')) => rm'.damageMultiplier >= rm.damageMultiplier]_vars
    /\ [](rm.state = "countdown" => rm.damageMultiplier = BASE_DAMAGE_MULTIPLIER)
    /\ [][(rm.state # "countdown" /\ rm'.state = "countdown")
            => rm'.damageMultiplier = BASE_DAMAGE_MULTIPLIER]_vars

\* A round has been played, by two actors or more, through the ramp and past
\* its end.
C30_Witness ==
    /\ isPlaying(rm)
    /\ Cardinality(AliveIdx(players)) >= 2
    /\ rm.roundTime > DAMAGE_RAMP_START + DAMAGE_RAMP_DURATION
    /\ rm.damageMultiplier = MAX_DAMAGE_MULTIPLIER

\* The escalation notifications among the notifications of a step.
Escalations(ev) == {k \in 1..Len(ev) : ev[k].type = "escalation"}

\* C31: chaos mode latches once per round.  The first update of a round being
\* played that brings roundTime to INSTABILITY_START or beyond sets
\* instabilityActive and makes exactly one escalation notification; no other
\* step makes one; instabilityActive is dropped only by the start of a
\* countdown; and it is never set while roundTime is below INSTABILITY_START.
C31_ChaosLatchedOnce ==
    /\ [](rm.instabilityActive => rm.roundTime >= INSTABILITY_START)
    /\ []((isPlaying(rm) /\ rm.roundTime >= INSTABILITY_START) => rm.instabilityActive)
    /\ [][(/\ isPlaying(rm)
           /\ rm'.roundTime > rm.roundTime
           /\ rm.roundTime < INSTABILITY_START
           /\ rm'.roundTime >= INSTABILITY_START)
            => /\ rm'.instabilityActive
               /\ Cardinality(Escalations(emitted')) = 1]_vars
    /\ [][Escalations(emitted') # {}
            => /\ isPlaying(rm)
               /\ ~rm.instabilityActive
               /\ rm'.instabilityActive
               /\ Cardinality(Escalations(emitted')) = 1]_vars
    /\ [][(rm.instabilityActive /\ ~rm'.instabilityActive)
            => /\ rm'.state = "countdown"
               /\ rm'.countdownValue = COUNTDOWN_DURATION
               /\ rm'.countdownTimer = COUNT_STEP]_vars

\* A round with chaos mode latched has been updated again, without a second
\* notification.
C31_Witness ==
    /\ isPlaying(rm)
    /\ rm.instabilityActive
    /\ rm.roundTime >= INSTABILITY_START + RoundStepMs
    /\ Escalations(emitted) = {}
    /\ Len(emitted) > 0

\* C32: the centrifuge ramps.  Whatever the size of the arena when the
\* centrifuge is started, while it is on its radius is never below the floor
\* of 80, and every update of a round being played leaves centrifugeSpeed and
\* centrifugeForce no lower than they were and no higher than their caps, and
\* centrifugeRadius no larger than it was and no smaller than the floor.
C32_CentrifugeRamps ==
    /\ [](arena.centrifugeMode => arena.centrifugeRadius >= SubPixels(CentrifugeMinRadius))
    /\ [][(/\ arena.centrifugeMode
           /\ arena'.centrifugeMode
           /\ arena'.roundTime > arena.roundTime)
            => /\ arena'.centrifugeSpeed >= arena.centrifugeSpeed
               /\ arena'.centrifugeSpeed <= CentrifugeMaxSpeed
               /\ arena'.centrifugeForce >= arena.centrifugeForce
               /\ arena'.centrifugeForce <= CentrifugeMaxForce
               /\ arena'.centrifugeRadius <= arena.centrifugeRadius
               /\ arena'.centrifugeRadius >= SubPixels(CentrifugeMinRadius)]_vars

ResetCalled(ev) == Len(ev) = 1 /\ ev[1].type = "reset"
SetSpawnPositionCalled(ev) == Len(ev) = 1 /\ ev[1].type = "setSpawnPosition"

\* C33: reset returns the actor to its spawn.  reset() keeps wins and leaves
\* the actor at the place its spawn position stores, with zero velocity,
\* alive, not dashing, without dash time, cooldown or idle time.  The spawn
\* position is never the object the position is, and the place it stores (and
\* the object itself) is changed by setSpawnPosition only: not by an update,
\* a collision or an elimination.
C33_ResetToSpawn ==
    /\ [][ResetCalled(emitted') =>
            /\ players'[1].wins = players[1].wins
            /\ game'.heap[players'[1].position] = game.heap[players[1].spawnPosition]
            /\ players'[1].velocity = 0
            /\ players'[1].isAlive
            /\ ~players'[1].isDashing
            /\ players'[1].dashTimeRemaining = 0
            /\ players'[1].dashCooldown = 0
            /\ players'[1].idleTime = 0
            /\ ~players'[1].isIdle]_vars
    /\ [](players[1].position # players[1].spawnPosition)
    /\ [][(\/ players'[1].spawnPosition # players[1].spawnPosition
           \/ game'.heap[players'[1].spawnPosition] # game.heap[players[1].spawnPosition])
            => SetSpawnPositionCalled(emitted')]_vars

\* An actor that has won a round has been reset, onto a vector other than the
\* one it was constructed with, to a spawn point it was given after its
\* construction.
C33_Witness ==
    /\ ResetCalled(emitted)
    /\ players[1].wins > 0
    /\ players[1].position # "v1"
    /\ game.heap[players[1].position] = OtherSpawn
    /\ game.heap[players[1].spawnPosition] = OtherSpawn

\* The actors and the arena as the reset of a round leaves them; of an actor
\* the lifecycle model keeps whether it is as reset() left it (at its spawn)
\* or has been through a tick of a round.
CleanStart(ps, a) ==
    /\ \A i \in Indices(ps) : ps[i].isAlive /\ ps[i].position = AtSpawn
    /\ a.roundTime = 0
    /\ ~a.isShrinking
    /\ ~a.suddenDeathActive
    /\ ~a.centrifugeMode
    /\ a.arenaScale = DefaultScale
    /\ a.shrinkSpeedMultiplier = DefaultScale
    /\ a.width = SubPixels(originalWidth)
    /\ a.height = SubPixels(originalHeight)

C35_SpawnInsideArena ==
    [][(isPlaying(rm') /\ ~arena'.isShrinking /\ Len(players') = Len(players))
          => \A i \in Indices(players) : players[i].isAlive => players'[i].isAlive]_vars

FrameRan(ev) == Len(ev) >= 1 /\ ev[1].type = "frame"
InputsRead(ev) == {k \in 1..Len(ev) : ev[k].type = "getPlayerInput"}

\* C36: a dash key press reaches a tick.  A press of the dash key made while
\* a round is played is not lost: the frame that follows it either runs a
\* tick of the round that reads dash = true for the actor, or, running none,
\* leaves the press pending for a later frame.
C36_DashPressDelivered ==
    [][(/\ FrameRan(emitted')
        /\ isPlaying(rm)
        /\ DashKey \in game.keyJustPressed)
          => IF InputsRead(emitted') = {}
             THEN DashKey \in game'.keyJustPressed
             ELSE \E k \in InputsRead(emitted') : emitted'[k].num = 1]_vars

RECURSIVE WinsOfFirst(_, _)
WinsOfFirst(ps, n) == IF n = 0 THEN 0 ELSE ps[n].wins + WinsOfFirst(ps, n - 1)
TotalWins(ps) == WinsOfFirst(ps, Len(ps))
\* The rounds of the current match that have ended: currentRound counts the
\* rounds that have started.
RoundsEnded(r) == IF isPlaying(r) THEN r.currentRound - 1 ELSE r.currentRound

\* C37: win accounting.  No actor holds more than WINS_NEEDED wins, at most
\* one actor holds WINS_NEEDED wins or more, and the wins of all actors sum
\* to at most the number of rounds that have ended in the current match.
C37_WinAccounting ==
    /\ \A i \in Indices(players) : players[i].wins <= WINS_NEEDED
    /\ Cardinality({i \in Indices(players) : players[i].wins >= WINS_NEEDED}) <= 1
    /\ TotalWins(players) <= RoundsEnded(rm)

\* A match won three rounds to two.
C37_Witness ==
    /\ isMatchOver(rm)
    /\ \E i, j \in Indices(players) :
          /\ players[i].wins = WINS_NEEDED
          /\ players[j].wins = WINS_NEEDED - 1
    /\ RoundsEnded(rm) = MaxWinRounds

\* The most an extent may lose in one tick at the accelerated linear rate,
\* 5 * (1 - minSizePercent) * arenaScale * extent * fixedStep / shrinkDuration,
\* in subpixels.
MaxShrinkStep(extent, arenaScale) ==
    ((((ScaledExtent(extent, arenaScale) * (100 - MinSizePercent)) \div 100)
        * (SuddenDeathShrinkSpeed \div 100)) * FIXED_TIMESTEP) \div ShrinkDuration
\* A fall within that rate, a subpixel allowed for the rounding.
WithinShrinkRate(drop, extent, arenaScale) == drop <= MaxShrinkStep(extent, arenaScale) + 1

\* C38: the arena shrinks progressively.  From one playing tick of a round
\* to the next the width and the height of the arena do not grow, and they
\* fall by no more than the accelerated linear rate allows in one fixed step.
C38_ShrinkProgressive ==
    [][(isPlaying(rm) /\ isPlaying(rm'))
          => /\ arena'.width <= arena.width
             /\ arena'.height <= arena.height
             /\ WithinShrinkRate(arena.width - arena'.width, originalWidth, arena.arenaScale)
             /\ WithinShrinkRate(arena.height - arena'.height, originalHeight,
                                 arena.arenaScale)]_vars

\* The tick that resets the actors and the arena for a round.
ResetTick == rm'.state = "countdown" /\ ~game.roundResetDone

LatestTimers(fx) == {t \in fx.timers : t.request = fx.requests}

\* C40: overlapping slow-motion requests.  A request made while the timer of
\* an earlier one is pending keeps the target time scale at its own scale
\* until its own duration has elapsed, and the target is back to normal once
\* every timer has fired.
C40_SlowMotionOverlap ==
    /\ \A t \in LatestTimers(game) :
          (t.overlaps /\ game.now < t.due) => game.targetTimeScale = t.scale
    /\ (game.timers = {}) => game.targetTimeScale = NormalTimeScale

====
